---- MODULE Spec2Model ----
(***************************************************************************)
(* Model of the Frost-Schwalen nomograph evaporation-loss solvers:         *)
(*   src/src/solver.cpp              (solveEvaporationLoss)                *)
(*   src/src/evap_solver_compact.h   (namespace EvapSolver)                *)
(*   src/src/evap_solver_validated.h (namespace EvapSolverValidated)       *)
(*   src/examples/evap_calculator.h, src/examples/copy_paste_calculator.cpp *)
(*                                                                         *)
(* A C++ double is modelled as a fixed-point number: an integer count of   *)
(* 1/Scale, or NaN.  Every product and quotient is rounded to the nearest  *)
(* multiple of 1/Scale, as a double operation rounds to the nearest        *)
(* double, so the order of the operations of an expression matters here as *)
(* it does in the code.  An int (the nozzle field) is a plain integer and  *)
(* is converted where the code converts it.                                *)
(***************************************************************************)
EXTENDS Integers, Sequences, FiniteSets, TLC

VARIABLES
  input,        \* the four values the caller passes (fields of an Input)
  call,         \* the entry point called last ("none" before the first)
  outcome,      \* what that call returned or threw
  printed,      \* what that call wrote to standard output
  cFlip,        \* EvapSolver::Calculator::calculate's static S6_flip
  vFlip,        \* EvapSolverValidated::Calculator::calculateUnchecked's static S6_flip
  builds,       \* how many times each solver has filled and sorted an S6_flip,
                \* and whether the last call found the table already there
  tbl,          \* lookup specification: the table handed to a lookup
  xq,           \* lookup specification: the query position
  looked,       \* lookup specification: the result of each lookup
  impl,         \* thread specification: the solver whose calculate the threads call
  pc,           \* thread specification: each thread's position in that function
  local,        \* thread specification: each thread's locals (yL, loop index)
  sFlip,        \* thread specification: that function's shared static S6_flip
  seen          \* thread specification: the table each thread's lerp read, and its result

vars == << input, call, outcome, printed, cFlip, vFlip, builds,
           tbl, xq, looked, impl, pc, local, sFlip, seen >>

seqVars    == << input, call, outcome, printed, cFlip, vFlip, builds >>
lookupVars == << tbl, xq, looked >>
threadVars == << impl, pc, local, sFlip, seen >>

----------------------------------------------------------------------------
(* Fixed-point arithmetic standing for double arithmetic.                  *)

Kilo  == 1000
Scale == Kilo * Kilo

Abs(a) == IF a < 0 THEN -a ELSE a
Sgn(a) == IF a < 0 THEN -1 ELSE 1

\* A local variable: v is computed once and F sees its value.
Bind(v, F(_)) == CHOOSE r \in { F(x) : x \in { v } } : TRUE

\* int -> double conversion
ToDouble(n) == n * Scale

\* a literal written in thousandths
Milli(n) == n * Kilo

\* a table point {x, y} whose literals are written in thousandths
P(x, y) == << Milli(x), Milli(y) >>

\* The double that is not a number: an integer no computation of the model
\* reaches.  Every comparison with it is false and every operation on it
\* gives it back, as IEEE 754 has it.
NaN == -2000 * Scale

IsNaN(v) == v = NaN

Lt(a, b) == ~IsNaN(a) /\ ~IsNaN(b) /\ a < b
Le(a, b) == ~IsNaN(a) /\ ~IsNaN(b) /\ a <= b
Gt(a, b) == ~IsNaN(a) /\ ~IsNaN(b) /\ a > b
Ge(a, b) == ~IsNaN(a) /\ ~IsNaN(b) /\ a >= b

Add(a, b) == IF IsNaN(a) \/ IsNaN(b) THEN NaN ELSE a + b
Sub(a, b) == IF IsNaN(a) \/ IsNaN(b) THEN NaN ELSE a - b

\* |a| * |b| / Scale rounded to nearest, computed in base-Kilo limbs so that
\* no intermediate product leaves the 32-bit range
MulAbs(x, y) ==
  LET xh == x \div Kilo
      xl == x % Kilo
      yh == y \div Kilo
      yl == y % Kilo
      H  == xh * yh
      M  == xh * yl + xl * yh
      L  == xl * yl
  IN  H + ((M + ((L + (Scale \div 2)) \div Kilo)) \div Kilo)

\* a * b for doubles
MulFix(a, b) ==
  IF IsNaN(a) \/ IsNaN(b) THEN NaN
  ELSE Sgn(a) * Sgn(b) * MulAbs(Abs(a), Abs(b))

\* the n next decimal digits of r / y (0 <= r < y), then round to nearest
RECURSIVE DivDigits(_, _, _, _)
DivDigits(r, y, n, acc) ==
  IF n = 0
    THEN IF 2 * r >= y THEN acc + 1 ELSE acc
    ELSE DivDigits((r * 10) % y, y, n - 1, acc * 10 + ((r * 10) \div y))

\* a / b for doubles; b = 0 gives an infinity or a NaN, which the model does
\* not tell apart
DivFix(a, b) ==
  IF IsNaN(a) \/ IsNaN(b) \/ b = 0 THEN NaN
  ELSE Sgn(a) * Sgn(b) * DivDigits(Abs(a) % Abs(b), Abs(b), 6, Abs(a) \div Abs(b))

----------------------------------------------------------------------------
(* What a call produces: a value, or an exception with its message.  oob   *)
(* says that the call read outside a vector on its way (undefined          *)
(* behaviour): the caller then gets what the record says, or the process   *)
(* dies in the read.                                                       *)

Ret(v)    == [kind |-> "value", val |-> v, msg |-> << >>, oob |-> FALSE]

\* A lookup whose x is a NaN reads *(it - 1) before the vector and returns a
\* NaN whatever it read.  A number x gets outside the vector only on an
\* unsorted table, and NaN then stands for the unknown value.
RetOob(v) == [kind |-> "value", val |-> v, msg |-> << >>, oob |-> TRUE]
Throw(m)  == [kind |-> "throw", val |-> 0, msg |-> m, oob |-> FALSE]
NoOutcome == [kind |-> "none",  val |-> 0, msg |-> << >>, oob |-> FALSE]
Crashed   == [kind |-> "crash", val |-> 0, msg |-> << >>, oob |-> TRUE]

\* the ways a call that produced r can end
Outcomes(r) == IF r.oob THEN { r, Crashed } ELSE { r }

----------------------------------------------------------------------------
(* std::lower_bound with the comparator a.first < val: a binary search.    *)
(* Returns the index (1-based) of the element found, Len + 1 for end().    *)

RECURSIVE lower_bound_step(_, _, _, _)
lower_bound_step(table, val, first, count) ==
  IF count <= 0 THEN first
  ELSE LET step == count \div 2
           it   == first + step
       IN  IF Lt(table[it][1], val)
             THEN lower_bound_step(table, val, it + 1, count - (step + 1))
             ELSE lower_bound_step(table, val, first, step)

\* std::upper_bound in its place: the first element whose position is above val
RECURSIVE upper_bound_step(_, _, _, _)
upper_bound_step(table, val, first, count) ==
  IF count <= 0 THEN first
  ELSE LET step == count \div 2
           it   == first + step
       IN  IF ~Lt(val, table[it][1])
             THEN upper_bound_step(table, val, it + 1, count - (step + 1))
             ELSE upper_bound_step(table, val, first, step)

upper_bound(table, val) == upper_bound_step(table, val, 1, Len(table))

lower_bound(table, val) == lower_bound_step(table, val, 1, Len(table))

\* std::sort of a vector of pairs: ascending by first, then by second
PairLess(a, b) == a[1] < b[1] \/ (a[1] = b[1] /\ a[2] < b[2])

RECURSIVE InsertSorted(_, _)
InsertSorted(s, e) ==
  IF s = << >> THEN << e >>
  ELSE IF PairLess(e, s[1]) THEN << e >> \o s
  ELSE << s[1] >> \o InsertSorted(Tail(s), e)

RECURSIVE SortPairs(_)
SortPairs(s) ==
  IF s = << >> THEN << >>
  ELSE Bind(SortPairs(Tail(s)), LAMBDA sorted : InsertSorted(sorted, s[1]))

\* a fill that appends the points as they are: emplace_back(val, y)
FlipPairs_unswapped(s) == [i \in 1..Len(s) |-> << s[i][1], s[i][2] >>]

\* the loop "for (const auto& [val, y] : S6) S6_flip.emplace_back(y, val)"
FlipPairs(s) == [i \in 1..Len(s) |-> << s[i][2], s[i][1] >>]

----------------------------------------------------------------------------
(* src/src/solver.cpp                                                      *)

solver_S3 ==
  << P(0, 0), P(100, 221), P(200, 381), P(300, 508), P(400, 613),
     P(500, 695), P(600, 762), P(700, 829), P(800, 887), P(900, 949),
     P(1000, 1000) >>

solver_S5 ==
  << P(8000, 1002), P(10000, 895), P(12000, 815), P(14000, 742),
     P(16000, 675), P(20000, 563), P(24000, 483), P(32000, 352),
     P(40000, 233), P(48000, 152), P(64000, -1) >>

solver_S7 ==
  << P(20000, 0), P(25000, 159), P(30000, 296), P(35000, 407),
     P(40000, 499), P(45000, 589), P(50000, 665), P(55000, 735),
     P(60000, 800), P(70000, 900), P(80000, 996) >>

solver_S9 ==
  << P(0, 0), P(1000, 140), P(2000, 246), P(3000, 356), P(4000, 435),
     P(5000, 508), P(6000, 578), P(7000, 651), P(8000, 706), P(9000, 760),
     P(10000, 811), P(11000, 854), P(12000, 895), P(13000, 930),
     P(15000, 994) >>

solver_S6 ==
  << P(0, 102), P(500, 252), P(1000, 360), P(2000, 460), P(3000, 521),
     P(4000, 563), P(5000, 599), P(6000, 633), P(8000, 671),
     P(10000, 702), P(15000, 758), P(20000, 812), P(30000, 883),
     P(40000, 917) >>

\* the column positions x3 .. x9
solver_X ==
  [x3 |-> Milli(0), x4 |-> Milli(237), x5 |-> Milli(439), x6 |-> Milli(490),
   x7 |-> Milli(738), x8 |-> Milli(870), x9 |-> Milli(1000)]

\* mutant: beyond the last point the last segment is extended
interpolate_extrapolating(table, x) ==
  IF table = << >> THEN Throw(<< "Interpolation table is empty." >>)
  ELSE IF Le(x, table[1][1]) THEN Ret(table[1][2])
  ELSE IF Len(table) = 1 THEN Ret(table[1][2])
  ELSE LET found == lower_bound(table, x)
           it    == IF found > Len(table) THEN Len(table) ELSE found
           x1    == table[it - 1][1]
           y1    == table[it - 1][2]
           x2    == table[it][1]
           y2    == table[it][2]
       IN  Ret(Add(y1, DivFix(MulFix(Sub(y2, y1), Sub(x, x1)), Sub(x2, x1))))

\* a lookup without the test for an empty table: front() of an empty vector
interpolate_no_empty_check(table, x) ==
  IF table = << >> THEN RetOob(NaN)
  ELSE IF Le(x, table[1][1]) THEN Ret(table[1][2])
  ELSE IF Ge(x, table[Len(table)][1]) THEN Ret(table[Len(table)][2])
  ELSE Bind(lower_bound(table, x), LAMBDA it :
         IF it < 2 \/ it > Len(table)
           THEN RetOob(NaN)
           ELSE LET x1 == table[it - 1][1]
                    y1 == table[it - 1][2]
                    x2 == table[it][1]
                    y2 == table[it][2]
                IN  Ret(Add(y1, DivFix(MulFix(Sub(y2, y1), Sub(x, x1)), Sub(x2, x1)))))

interpolate(table, x) ==
  IF table = << >> THEN Throw(<< "Interpolation table is empty." >>)
  ELSE IF Le(x, table[1][1]) THEN Ret(table[1][2])
  ELSE IF Ge(x, table[Len(table)][1]) THEN Ret(table[Len(table)][2])
  ELSE Bind(lower_bound(table, x), LAMBDA it :
         IF it < 2 \/ it > Len(table)
           THEN RetOob(NaN)   \* *(it - 1) or *it is outside the vector: see RetOob
           ELSE LET x1 == table[it - 1][1]
                    y1 == table[it - 1][2]
                    x2 == table[it][1]
                    y2 == table[it][2]
                IN  Ret(Add(y1, DivFix(MulFix(Sub(y2, y1), Sub(x, x1)), Sub(x2, x1)))))

\* mutant: the line anchored at x2 instead of x1
linearBetween_from_x2(x, x1, y1, x2, y2) ==
  LET slope == DivFix(Sub(y2, y1), Sub(x2, x1))
  IN  Add(y1, MulFix(slope, Sub(x, x2)))

linearBetween(x, x1, y1, x2, y2) ==
  LET slope == DivFix(Sub(y2, y1), Sub(x2, x1))
  IN  Add(y1, MulFix(slope, Sub(x, x1)))

\* S6_flip is a local here: built and sorted by every call
solver_S6_flip == SortPairs(FlipPairs(solver_S6))

\* the forward lookups and the three blends: yL
solver_yL(in) ==
  Bind(<< interpolate(solver_S3, in.vpd),
           interpolate(solver_S5, ToDouble(in.nozzle)),
           interpolate(solver_S7, in.pressure),
           interpolate(solver_S9, in.wind) >>, LAMBDA y :
    LET X  == solver_X
        y3 == y[1]
        y5 == y[2]
        y7 == y[3]
        y9 == y[4]
    IN  IF y3.kind = "throw" THEN y3
        ELSE IF y5.kind = "throw" THEN y5
        ELSE IF y7.kind = "throw" THEN y7
        ELSE IF y9.kind = "throw" THEN y9
        ELSE LET yA == linearBetween(X.x4, X.x3, y3.val, X.x5, y5.val)
                 yB == linearBetween(X.x8, X.x7, y7.val, X.x9, y9.val)
                 yL == linearBetween(X.x6, X.x4, yA, X.x8, yB)
             IN  IF y3.oob \/ y5.oob \/ y7.oob \/ y9.oob THEN RetOob(yL) ELSE Ret(yL))

\* returns [res |-> what the call returns, out |-> what it writes to std::cout,
\*          flip |-> the local S6_flip it built, << >> if it did not get there]
solveEvaporationLoss(in) ==
  Bind(solver_yL(in), LAMBDA yL :
    IF yL.kind = "throw" THEN [res |-> yL, out |-> << >>, flip |-> << >>]
    ELSE Bind(interpolate(solver_S6_flip, yL.val), LAMBDA r :
           LET evapLoss == [r EXCEPT !.oob = r.oob \/ yL.oob]
           IN  IF evapLoss.kind = "throw"
                 THEN [res |-> evapLoss, out |-> << >>, flip |-> solver_S6_flip]
               ELSE [res |-> evapLoss,
                     out |-> << "Evaporation Loss: ", evapLoss.val, "%" >>,
                     flip |-> solver_S6_flip]))

----------------------------------------------------------------------------
(* src/src/evap_solver_compact.h, namespace EvapSolver                     *)

EvapSolver_S3 ==
  << P(0, 0), P(100, 221), P(200, 381), P(300, 508), P(400, 613),
     P(500, 695), P(600, 762), P(700, 829), P(800, 887), P(900, 949),
     P(1000, 1000) >>

EvapSolver_S5 ==
  << P(8000, 1002), P(10000, 895), P(12000, 815), P(14000, 742),
     P(16000, 675), P(20000, 563), P(24000, 483), P(32000, 352),
     P(40000, 233), P(48000, 152), P(64000, -1) >>

EvapSolver_S7 ==
  << P(20000, 0), P(25000, 159), P(30000, 296), P(35000, 407),
     P(40000, 499), P(45000, 589), P(50000, 665), P(55000, 735),
     P(60000, 800), P(70000, 900), P(80000, 996) >>

EvapSolver_S9 ==
  << P(0, 0), P(1000, 140), P(2000, 246), P(3000, 356), P(4000, 435),
     P(5000, 508), P(6000, 578), P(7000, 651), P(8000, 706), P(9000, 760),
     P(10000, 811), P(11000, 854), P(12000, 895), P(13000, 930),
     P(15000, 994) >>

EvapSolver_S6 ==
  << P(0, 102), P(500, 252), P(1000, 360), P(2000, 460), P(3000, 521),
     P(4000, 563), P(5000, 599), P(6000, 633), P(8000, 671),
     P(10000, 702), P(15000, 758), P(20000, 812), P(30000, 883),
     P(40000, 917) >>

\* mutant: column 8 mistyped as 0.780
EvapSolver_X_typo ==
  [x3 |-> Milli(0), x4 |-> Milli(237), x5 |-> Milli(439), x6 |-> Milli(490),
   x7 |-> Milli(738), x8 |-> Milli(780), x9 |-> Milli(1000)]

\* the column positions x3 .. x9
EvapSolver_X ==
  [x3 |-> Milli(0), x4 |-> Milli(237), x5 |-> Milli(439), x6 |-> Milli(490),
   x7 |-> Milli(738), x8 |-> Milli(870), x9 |-> Milli(1000)]

\* a lookup without the clamp at the last point: beyond it, the last segment
\* is continued
EvapSolver_lerp_extrapolating(table, x) ==
  IF table = << >> THEN Throw(<< "Empty table" >>)
  ELSE IF Le(x, table[1][1]) THEN Ret(table[1][2])
  ELSE Bind(lower_bound(table, x), LAMBDA found :
         IF found < 2 \/ Len(table) < 2
           THEN RetOob(NaN)
           ELSE LET it == IF found > Len(table) THEN Len(table) ELSE found
                    x1 == table[it - 1][1]
                    y1 == table[it - 1][2]
                    x2 == table[it][1]
                    y2 == table[it][2]
                IN  Ret(Add(y1, DivFix(MulFix(Sub(y2, y1), Sub(x, x1)), Sub(x2, x1)))))

EvapSolver_lerp(table, x) ==
  IF table = << >> THEN Throw(<< "Empty table" >>)
  ELSE IF Le(x, table[1][1]) THEN Ret(table[1][2])
  ELSE IF Ge(x, table[Len(table)][1]) THEN Ret(table[Len(table)][2])
  ELSE Bind(lower_bound(table, x), LAMBDA it :
         IF it < 2 \/ it > Len(table)
           THEN RetOob(NaN)   \* *(it - 1) or *it is outside the vector: see RetOob
           ELSE LET x1 == table[it - 1][1]
                    y1 == table[it - 1][2]
                    x2 == table[it][1]
                    y2 == table[it][2]
                IN  Ret(Add(y1, DivFix(MulFix(Sub(y2, y1), Sub(x, x1)), Sub(x2, x1)))))

\* a blend with the sign of its second term wrong
EvapSolver_lerp2_sign_error(x, x1, y1, x2, y2) ==
  Sub(y1, DivFix(MulFix(Sub(y2, y1), Sub(x, x1)), Sub(x2, x1)))

EvapSolver_lerp2(x, x1, y1, x2, y2) ==
  Add(y1, DivFix(MulFix(Sub(y2, y1), Sub(x, x1)), Sub(x2, x1)))

\* a build that swaps the pairs of the table it kept on every later call
EvapSolver_S6_flip_built_swapped_again(flip) ==
  IF flip = << >> THEN SortPairs(flip \o FlipPairs(EvapSolver_S6))
  ELSE FlipPairs(flip)

\* the static S6_flip after "if (S6_flip.empty()) { fill; sort }"
EvapSolver_S6_flip_built(flip) ==
  IF flip = << >> THEN SortPairs(flip \o FlipPairs(EvapSolver_S6)) ELSE flip

\* the forward lookups and the three blends: yL
EvapSolver_yL(in) ==
  Bind(<< EvapSolver_lerp(EvapSolver_S3, in.vpd),
           EvapSolver_lerp(EvapSolver_S5, ToDouble(in.nozzle)),
           EvapSolver_lerp(EvapSolver_S7, in.pressure),
           EvapSolver_lerp(EvapSolver_S9, in.wind) >>, LAMBDA y :
    LET X  == EvapSolver_X
        y3 == y[1]
        y5 == y[2]
        y7 == y[3]
        y9 == y[4]
    IN  IF y3.kind = "throw" THEN y3
        ELSE IF y5.kind = "throw" THEN y5
        ELSE IF y7.kind = "throw" THEN y7
        ELSE IF y9.kind = "throw" THEN y9
        ELSE Bind(<< EvapSolver_lerp2(X.x4, X.x3, y3.val, X.x5, y5.val),
                     EvapSolver_lerp2(X.x8, X.x7, y7.val, X.x9, y9.val) >>, LAMBDA blend :
               LET yA == blend[1]
                   yB == blend[2]
               IN  Bind(EvapSolver_lerp2(X.x6, X.x4, yA, X.x8, yB), LAMBDA yL :
                     IF y3.oob \/ y5.oob \/ y7.oob \/ y9.oob
                       THEN RetOob(yL) ELSE Ret(yL))))

\* returns [res |-> what the call returns, flip |-> the static S6_flip after it]
EvapSolver_calculate(in, flip) ==
  Bind(EvapSolver_yL(in), LAMBDA yL :
    IF yL.kind = "throw" THEN [res |-> yL, flip |-> flip]
    ELSE Bind(EvapSolver_S6_flip_built(flip), LAMBDA built :
           Bind(EvapSolver_lerp(built, yL.val), LAMBDA r :
             [res |-> [r EXCEPT !.oob = r.oob \/ yL.oob], flip |-> built])))

\* the convenience function: Calculator::calculate({vpd, nozzle, pressure, wind})
EvapSolver_calculateEvaporationLoss(vpd, nozzle, pressure, wind, flip) ==
  EvapSolver_calculate(
    [vpd |-> vpd, nozzle |-> nozzle, pressure |-> pressure, wind |-> wind], flip)

----------------------------------------------------------------------------
(* src/src/evap_solver_validated.h, namespace EvapSolverValidated          *)

\* mutant: the sign is not rendered
to_string_double_unsigned(v) == << "", Abs(v) \div Scale, ".", Abs(v) % Scale >>

\* std::to_string(double): "%f", the sign, the integer digits and six decimals
to_string_double(v) ==
  IF IsNaN(v) THEN << "", "nan" >>
  ELSE << IF v < 0 THEN "-" ELSE "", Abs(v) \div Scale, ".", Abs(v) % Scale >>

\* std::to_string(int)
to_string_int(n) == << IF n < 0 THEN "-" ELSE "", Abs(n) >>

\* Input::validate: the exception it throws, or no exception
validate(in) ==
  IF Lt(in.vpd, ToDouble(0)) \/ Gt(in.vpd, ToDouble(1))
    THEN Throw(<< "Vapor-Pressure Deficit", " must be between ", "0.0", " and ",
                  "1.0", " psi (got ", to_string_double(in.vpd), ")" >>)
  ELSE IF in.nozzle < 8 \/ in.nozzle > 64
    THEN Throw(<< "Nozzle diameter", " must be between ", "8", " and ",
                  "64", " (64ths of an inch) (got ", to_string_int(in.nozzle), ")" >>)
  ELSE IF Lt(in.pressure, ToDouble(20)) \/ Gt(in.pressure, ToDouble(80))
    THEN Throw(<< "Nozzle pressure", " must be between ", "20", " and ",
                  "80", " psi (got ", to_string_double(in.pressure), ")" >>)
  ELSE IF Lt(in.wind, ToDouble(0)) \/ Gt(in.wind, ToDouble(15))
    THEN Throw(<< "Wind velocity", " must be between ", "0", " and ",
                  "15", " mph (got ", to_string_double(in.wind), ")" >>)
  ELSE NoOutcome

\* Input(vpd_val, nozzle_val, pressure_val, wind_val): the object, or the
\* exception validate() throws out of the constructor
Input(vpd_val, nozzle_val, pressure_val, wind_val) ==
  LET obj == [vpd |-> vpd_val, nozzle |-> nozzle_val,
              pressure |-> pressure_val, wind |-> wind_val]
      v   == validate(obj)
  IN  IF v.kind = "throw" THEN [thrown |-> TRUE, exc |-> v, obj |-> obj]
      ELSE [thrown |-> FALSE, exc |-> NoOutcome, obj |-> obj]

\* Input(): the default constructor, which does not validate
Input_default ==
  [vpd |-> Milli(600), nozzle |-> 12, pressure |-> ToDouble(40), wind |-> ToDouble(5)]

ValidationResult(valid, error, value, outOfRange) ==
  [kind |-> "result", isValid |-> valid, errorMessage |-> error,
   calculatedValue |-> value, isOutOfRange |-> outOfRange, oob |-> FALSE]

EvapSolverValidated_S3 ==
  << P(0, 0), P(100, 221), P(200, 381), P(300, 508), P(400, 613),
     P(500, 695), P(600, 762), P(700, 829), P(800, 887), P(900, 949),
     P(1000, 1000) >>

EvapSolverValidated_S5 ==
  << P(8000, 1002), P(10000, 895), P(12000, 815), P(14000, 742),
     P(16000, 675), P(20000, 563), P(24000, 483), P(32000, 352),
     P(40000, 233), P(48000, 152), P(64000, -1) >>

EvapSolverValidated_S7 ==
  << P(20000, 0), P(25000, 159), P(30000, 296), P(35000, 407),
     P(40000, 499), P(45000, 589), P(50000, 665), P(55000, 735),
     P(60000, 800), P(70000, 900), P(80000, 996) >>

EvapSolverValidated_S9 ==
  << P(0, 0), P(1000, 140), P(2000, 246), P(3000, 356), P(4000, 435),
     P(5000, 508), P(6000, 578), P(7000, 651), P(8000, 706), P(9000, 760),
     P(10000, 811), P(11000, 854), P(12000, 895), P(13000, 930),
     P(15000, 994) >>

EvapSolverValidated_S6 ==
  << P(0, 102), P(500, 252), P(1000, 360), P(2000, 460), P(3000, 521),
     P(4000, 563), P(5000, 599), P(6000, 633), P(8000, 671),
     P(10000, 702), P(15000, 758), P(20000, 812), P(30000, 883),
     P(40000, 917) >>

\* mutant: column 4 mistyped as 0.273
EvapSolverValidated_X_typo ==
  [x3 |-> Milli(0), x4 |-> Milli(273), x5 |-> Milli(439), x6 |-> Milli(490),
   x7 |-> Milli(738), x8 |-> Milli(870), x9 |-> Milli(1000)]

\* the column positions x3 .. x9
EvapSolverValidated_X ==
  [x3 |-> Milli(0), x4 |-> Milli(237), x5 |-> Milli(439), x6 |-> Milli(490),
   x7 |-> Milli(738), x8 |-> Milli(870), x9 |-> Milli(1000)]

\* mutant: always the segment before the one lower_bound finds
EvapSolverValidated_lerp_previous_segment(table, x) ==
  IF table = << >> THEN Throw(<< "Empty interpolation table" >>)
  ELSE IF Le(x, table[1][1]) THEN Ret(table[1][2])
  ELSE IF Ge(x, table[Len(table)][1]) THEN Ret(table[Len(table)][2])
  ELSE LET found == lower_bound(table, x)
           it    == IF found > 2 THEN found - 1 ELSE found
           x1    == table[it - 1][1]
           y1    == table[it - 1][2]
           x2    == table[it][1]
           y2    == table[it][2]
       IN  Ret(Add(y1, DivFix(MulFix(Sub(y2, y1), Sub(x, x1)), Sub(x2, x1))))

\* a lookup without the clamp at the first point: below it, the first segment
\* is continued
EvapSolverValidated_lerp_extrapolating_below(table, x) ==
  IF table = << >> THEN Throw(<< "Empty interpolation table" >>)
  ELSE IF Ge(x, table[Len(table)][1]) THEN Ret(table[Len(table)][2])
  ELSE Bind(lower_bound(table, x), LAMBDA found :
         IF found > Len(table) \/ Len(table) < 2
           THEN RetOob(NaN)
           ELSE LET it == IF found < 2 THEN 2 ELSE found
                    x0 == table[it - 1][1]
                    y0 == table[it - 1][2]
                    x1 == table[it][1]
                    y1 == table[it][2]
                IN  Ret(Add(y0, DivFix(MulFix(Sub(y1, y0), Sub(x, x0)), Sub(x1, x0)))))

EvapSolverValidated_lerp(table, x) ==
  IF table = << >> THEN Throw(<< "Empty interpolation table" >>)
  ELSE IF Le(x, table[1][1]) THEN Ret(table[1][2])
  ELSE IF Ge(x, table[Len(table)][1]) THEN Ret(table[Len(table)][2])
  ELSE Bind(lower_bound(table, x), LAMBDA it :
         IF it < 2 \/ it > Len(table)
           THEN RetOob(NaN)   \* *(it - 1) or *it is outside the vector: see RetOob
           ELSE LET x1 == table[it - 1][1]
                    y1 == table[it - 1][2]
                    x2 == table[it][1]
                    y2 == table[it][2]
                IN  Ret(Add(y1, DivFix(MulFix(Sub(y2, y1), Sub(x, x1)), Sub(x2, x1)))))

EvapSolverValidated_lerp2(x, x1, y1, x2, y2) ==
  Add(y1, DivFix(MulFix(Sub(y2, y1), Sub(x, x1)), Sub(x2, x1)))

\* a build without "if (S6_flip.empty())": every call appends and sorts again
EvapSolverValidated_S6_flip_built_refilled(flip) ==
  SortPairs(flip \o FlipPairs(EvapSolverValidated_S6))

\* the static S6_flip after "if (S6_flip.empty()) { fill; sort }"
EvapSolverValidated_S6_flip_built(flip) ==
  IF flip = << >> THEN SortPairs(flip \o FlipPairs(EvapSolverValidated_S6)) ELSE flip

\* the forward lookups and the three blends: yL
EvapSolverValidated_yL(in) ==
  Bind(<< EvapSolverValidated_lerp(EvapSolverValidated_S3, in.vpd),
           EvapSolverValidated_lerp(EvapSolverValidated_S5, ToDouble(in.nozzle)),
           EvapSolverValidated_lerp(EvapSolverValidated_S7, in.pressure),
           EvapSolverValidated_lerp(EvapSolverValidated_S9, in.wind) >>, LAMBDA y :
    LET X  == EvapSolverValidated_X
        y3 == y[1]
        y5 == y[2]
        y7 == y[3]
        y9 == y[4]
    IN  IF y3.kind = "throw" THEN y3
        ELSE IF y5.kind = "throw" THEN y5
        ELSE IF y7.kind = "throw" THEN y7
        ELSE IF y9.kind = "throw" THEN y9
        ELSE Bind(<< EvapSolverValidated_lerp2(X.x4, X.x3, y3.val, X.x5, y5.val),
                     EvapSolverValidated_lerp2(X.x8, X.x7, y7.val, X.x9, y9.val) >>, LAMBDA blend :
               LET yA == blend[1]
                   yB == blend[2]
               IN  Bind(EvapSolverValidated_lerp2(X.x6, X.x4, yA, X.x8, yB), LAMBDA yL :
                     IF y3.oob \/ y5.oob \/ y7.oob \/ y9.oob
                       THEN RetOob(yL) ELSE Ret(yL))))

\* returns [res |-> what the call returns, flip |-> the static S6_flip after it]
calculateUnchecked(in, flip) ==
  Bind(EvapSolverValidated_yL(in), LAMBDA yL :
    IF yL.kind = "throw" THEN [res |-> yL, flip |-> flip]
    ELSE Bind(EvapSolverValidated_S6_flip_built(flip), LAMBDA built :
           Bind(EvapSolverValidated_lerp(built, yL.val), LAMBDA r :
             [res |-> [r EXCEPT !.oob = r.oob \/ yL.oob], flip |-> built])))

\* Calculator::calculate: validate, then calculateUnchecked
EvapSolverValidated_calculate(in, flip) ==
  LET v == validate(in)
  IN  IF v.kind = "throw" THEN [res |-> v, flip |-> flip]
      ELSE calculateUnchecked(in, flip)

\* a calculateWithValidation that evaluates first and validates afterwards
calculateWithValidation_evaluating_first(in, flip) ==
  Bind(calculateUnchecked(in, flip), LAMBDA r :
    LET v          == validate(in)
        result     == r.res.val
        outOfRange == Lt(result, ToDouble(0)) \/ Gt(result, ToDouble(40))
    IN  IF r.res.kind = "throw"
          THEN [res |-> ValidationResult(FALSE, r.res.msg, 0, FALSE), flip |-> r.flip]
        ELSE IF v.kind = "throw"
          THEN [res |-> [ValidationResult(FALSE, v.msg, result, outOfRange)
                           EXCEPT !.oob = r.res.oob],
                flip |-> r.flip]
        ELSE [res |-> [ValidationResult(TRUE, << >>, result, outOfRange)
                         EXCEPT !.oob = r.res.oob],
              flip |-> r.flip])

\* Calculator::calculateWithValidation: the try block and its catch
calculateWithValidation(in, flip) ==
  LET v == validate(in)
  IN  IF v.kind = "throw"
        THEN [res |-> ValidationResult(FALSE, v.msg, 0, FALSE), flip |-> flip]
      ELSE Bind(calculateUnchecked(in, flip), LAMBDA r :
             IF r.res.kind = "throw"
               THEN [res |-> ValidationResult(FALSE, r.res.msg, 0, FALSE),
                     flip |-> r.flip]
             ELSE LET result     == r.res.val
                      outOfRange == Lt(result, ToDouble(0)) \/ Gt(result, ToDouble(40))
                      vr         == ValidationResult(TRUE, << >>, result, outOfRange)
                  IN  [res |-> [vr EXCEPT !.oob = r.res.oob], flip |-> r.flip])

\* the convenience function calculateEvaporationLossWithValidation
calculateEvaporationLossWithValidation(vpd, nozzle, pressure, wind, flip) ==
  LET c == Input(vpd, nozzle, pressure, wind)
  IN  IF c.thrown
        THEN [res |-> ValidationResult(FALSE, c.exc.msg, 0, FALSE), flip |-> flip]
      ELSE calculateWithValidation(c.obj, flip)

\* the convenience function calculateEvaporationLoss
EvapSolverValidated_calculateEvaporationLoss(vpd, nozzle, pressure, wind, flip) ==
  LET c == Input(vpd, nozzle, pressure, wind)
  IN  IF c.thrown THEN [res |-> c.exc, flip |-> flip]
      ELSE EvapSolverValidated_calculate(c.obj, flip)

\* calculateEvaporationLossSafe: the default value on any std::exception
calculateEvaporationLossSafe(vpd, nozzle, pressure, wind, defaultValue, flip) ==
  Bind(EvapSolverValidated_calculateEvaporationLoss(vpd, nozzle, pressure, wind, flip),
        LAMBDA r :
    IF r.res.kind = "throw" THEN [res |-> Ret(defaultValue), flip |-> r.flip]
    ELSE r)


----------------------------------------------------------------------------
(* src/examples/evap_calculator.h and src/examples/copy_paste_calculator.cpp: *)
(* the two single-function calculators, each with its own literal tables,  *)
(* the result table written already flipped.                               *)

evap_calculator_S3 ==
  << P(0, 0), P(100, 221), P(200, 381), P(300, 508), P(400, 613),
     P(500, 695), P(600, 762), P(700, 829), P(800, 887), P(900, 949),
     P(1000, 1000) >>

evap_calculator_S5 ==
  << P(8000, 1002), P(10000, 895), P(12000, 815), P(14000, 742),
     P(16000, 675), P(20000, 563), P(24000, 483), P(32000, 352),
     P(40000, 233), P(48000, 152), P(64000, -1) >>

evap_calculator_S7 ==
  << P(20000, 0), P(25000, 159), P(30000, 296), P(35000, 407),
     P(40000, 499), P(45000, 589), P(50000, 665), P(55000, 735),
     P(60000, 800), P(70000, 900), P(80000, 996) >>

evap_calculator_S9 ==
  << P(0, 0), P(1000, 140), P(2000, 246), P(3000, 356), P(4000, 435),
     P(5000, 508), P(6000, 578), P(7000, 651), P(8000, 706), P(9000, 760),
     P(10000, 811), P(11000, 854), P(12000, 895), P(13000, 930),
     P(15000, 994) >>

evap_calculator_S6_flip ==
  << P(102, 0), P(252, 500), P(360, 1000), P(460, 2000), P(521, 3000),
     P(563, 4000), P(599, 5000), P(633, 6000), P(671, 8000),
     P(702, 10000), P(758, 15000), P(812, 20000), P(883, 30000),
     P(917, 40000) >>

evap_calculator_X ==
  [x3 |-> Milli(0), x4 |-> Milli(237), x5 |-> Milli(439), x6 |-> Milli(490),
   x7 |-> Milli(738), x8 |-> Milli(870), x9 |-> Milli(1000)]

\* the lambda lerp
evap_calculator_lerp(x, x1, y1, x2, y2) ==
  Add(y1, DivFix(MulFix(Sub(y2, y1), Sub(x, x1)), Sub(x2, x1)))

\* the lambda interpolate: no test for an empty table
evap_calculator_interpolate(table, x) ==
  IF table = << >> THEN RetOob(NaN)
  ELSE IF Le(x, table[1][1]) THEN Ret(table[1][2])
  ELSE IF Ge(x, table[Len(table)][1]) THEN Ret(table[Len(table)][2])
  ELSE Bind(lower_bound(table, x), LAMBDA it :
         IF it < 2 \/ it > Len(table)
           THEN RetOob(NaN)   \* *(it - 1) or *it is outside the vector: see RetOob
           ELSE LET x1 == table[it - 1][1]
                    y1 == table[it - 1][2]
                    x2 == table[it][1]
                    y2 == table[it][2]
                IN  Ret(Add(y1, DivFix(MulFix(Sub(y2, y1), Sub(x, x1)), Sub(x2, x1)))))

evap_calculator_calculateEvaporationLoss(vpd, nozzle, pressure, wind) ==
  Bind(<< evap_calculator_interpolate(evap_calculator_S3, vpd),
           evap_calculator_interpolate(evap_calculator_S5, ToDouble(nozzle)),
           evap_calculator_interpolate(evap_calculator_S7, pressure),
           evap_calculator_interpolate(evap_calculator_S9, wind) >>, LAMBDA y :
    LET X  == evap_calculator_X
        y3 == y[1]
        y5 == y[2]
        y7 == y[3]
        y9 == y[4]
    IN  Bind(<< evap_calculator_lerp(X.x4, X.x3, y3.val, X.x5, y5.val),
                evap_calculator_lerp(X.x8, X.x7, y7.val, X.x9, y9.val) >>, LAMBDA blend :
          Bind(evap_calculator_lerp(X.x6, X.x4, blend[1], X.x8, blend[2]), LAMBDA yL :
            Bind(evap_calculator_interpolate(evap_calculator_S6_flip, yL), LAMBDA r :
              [r EXCEPT !.oob = r.oob \/ y3.oob \/ y5.oob \/ y7.oob \/ y9.oob]))))

copy_paste_calculator_S3 ==
  << P(0, 0), P(100, 221), P(200, 381), P(300, 508), P(400, 613),
     P(500, 695), P(600, 762), P(700, 829), P(800, 887), P(900, 949),
     P(1000, 1000) >>

copy_paste_calculator_S5 ==
  << P(8000, 1002), P(10000, 895), P(12000, 815), P(14000, 742),
     P(16000, 675), P(20000, 563), P(24000, 483), P(32000, 352),
     P(40000, 233), P(48000, 152), P(64000, -1) >>

copy_paste_calculator_S7 ==
  << P(20000, 0), P(25000, 159), P(30000, 296), P(35000, 407),
     P(40000, 499), P(45000, 589), P(50000, 665), P(55000, 735),
     P(60000, 800), P(70000, 900), P(80000, 996) >>

copy_paste_calculator_S9 ==
  << P(0, 0), P(1000, 140), P(2000, 246), P(3000, 356), P(4000, 435),
     P(5000, 508), P(6000, 578), P(7000, 651), P(8000, 706), P(9000, 760),
     P(10000, 811), P(11000, 854), P(12000, 895), P(13000, 930),
     P(15000, 994) >>

\* named S6 in this file, but written flipped
copy_paste_calculator_S6 ==
  << P(102, 0), P(252, 500), P(360, 1000), P(460, 2000), P(521, 3000),
     P(563, 4000), P(599, 5000), P(633, 6000), P(671, 8000),
     P(702, 10000), P(758, 15000), P(812, 20000), P(883, 30000),
     P(917, 40000) >>

\* the lambda interp
copy_paste_calculator_interp(t, x) ==
  IF t = << >> THEN RetOob(NaN)
  ELSE IF Le(x, t[1][1]) THEN Ret(t[1][2])
  ELSE IF Ge(x, t[Len(t)][1]) THEN Ret(t[Len(t)][2])
  ELSE Bind(lower_bound(t, x), LAMBDA it :
         IF it < 2 \/ it > Len(t)
           THEN RetOob(NaN)   \* *(it - 1) or *it is outside the vector: see RetOob
           ELSE LET x1 == t[it - 1][1]
                    y1 == t[it - 1][2]
                    x2 == t[it][1]
                    y2 == t[it][2]
                IN  Ret(Add(y1, DivFix(MulFix(Sub(y2, y1), Sub(x, x1)), Sub(x2, x1)))))

\* the ratio of the second blend taken against the wrong column distance
copy_paste_calculator_ratios_misfolded ==
  [yA |-> << Milli(237), Milli(439) >>,
   yB |-> << Milli(132), Milli(130) >>,
   yL |-> << Milli(253), Milli(633) >>]

\* the literals of the three blends: 0.237 / 0.439, 0.132 / 0.262, 0.253 / 0.633
copy_paste_calculator_ratios ==
  [yA |-> << Milli(237), Milli(439) >>,
   yB |-> << Milli(132), Milli(262) >>,
   yL |-> << Milli(253), Milli(633) >>]

copy_paste_calculator_calculateEvaporationLoss(vpd, nozzle, pressure, wind) ==
  Bind(<< copy_paste_calculator_interp(copy_paste_calculator_S3, vpd),
           copy_paste_calculator_interp(copy_paste_calculator_S5, ToDouble(nozzle)),
           copy_paste_calculator_interp(copy_paste_calculator_S7, pressure),
           copy_paste_calculator_interp(copy_paste_calculator_S9, wind) >>, LAMBDA y :
    LET k  == copy_paste_calculator_ratios
        y3 == y[1]
        y5 == y[2]
        y7 == y[3]
        y9 == y[4]
    IN  Bind(<< Add(y3.val, DivFix(MulFix(Sub(y5.val, y3.val), k.yA[1]), k.yA[2])),
                Add(y7.val, DivFix(MulFix(Sub(y9.val, y7.val), k.yB[1]), k.yB[2])) >>,
             LAMBDA blend :
          Bind(Add(blend[1], DivFix(MulFix(Sub(blend[2], blend[1]), k.yL[1]), k.yL[2])),
               LAMBDA yL :
            Bind(copy_paste_calculator_interp(copy_paste_calculator_S6, yL), LAMBDA r :
              [r EXCEPT !.oob = r.oob \/ y3.oob \/ y5.oob \/ y7.oob \/ y9.oob]))))

----------------------------------------------------------------------------
(* The sequential specification: a caller that sets the four values and    *)
(* calls one entry point after another.                                    *)

\* the reference scenario of the tests: vpd 0.6, nozzle 12, pressure 40, wind 5
RefInput ==
  [vpd |-> Milli(600), nozzle |-> 12, pressure |-> ToDouble(40), wind |-> ToDouble(5)]

\* each field at its lower bound, at the reference value, at its upper bound
GridInputs ==
  [vpd      : { Milli(0), Milli(600), Milli(1000) },
   nozzle   : { 8, 12, 64 },
   pressure : { ToDouble(20), ToDouble(40), ToDouble(80) },
   wind     : { ToDouble(0), ToDouble(5), ToDouble(15) }]

\* values between two table points
OffGridInputs ==
  [vpd      : { Milli(600), Milli(250) },
   nozzle   : { 12, 13 },
   pressure : { ToDouble(40), Milli(42500) },
   wind     : { ToDouble(5), ToDouble(14) }]

\* the out-of-domain values of the tests, in one field or in several
BelowInputs ==
  [vpd      : { Milli(600), Milli(-100) },
   nozzle   : { 12, 5 },
   pressure : { ToDouble(40), ToDouble(10) },
   wind     : { ToDouble(5), ToDouble(-1) }]

AboveInputs ==
  [vpd      : { Milli(600), Milli(1500) },
   nozzle   : { 12, 100 },
   pressure : { ToDouble(40), ToDouble(100) },
   wind     : { ToDouble(5), ToDouble(20) }]

\* a double that is not a number, and an out-of-domain nozzle beside it
NaNInputs ==
  [vpd      : { Milli(600), NaN },
   nozzle   : { 12, 5 },
   pressure : { ToDouble(40), NaN },
   wind     : { ToDouble(5), NaN }]

\* two pressures one ten-thousandth of a psi apart (100 units of 1 / Scale),
\* between which the rounding of the second blend goes the other way
RoundingInputs ==
  [vpd      : { Milli(600) },
   nozzle   : { 8 },
   pressure : { ToDouble(72), ToDouble(72) + 100 },
   wind     : { ToDouble(14) }]

Inputs ==
  GridInputs \cup OffGridInputs \cup BelowInputs \cup AboveInputs \cup NaNInputs
    \cup RoundingInputs

DefaultValues == { ToDouble(-1), ToDouble(0) }

Call(fn, d) == [fn |-> fn, defaultValue |-> d]

\* the calls of solveEvaporationLoss a run of the model makes at most: each
\* one builds a table
MaxBuilds == 2

\* cached: the call in progress found its S6_flip already built
NoBuilds == [regular |-> 0, compact |-> 0, validated |-> 0, cached |-> FALSE]

\* 1 if a call that found the table as before and left it as after filled and
\* sorted it, 0 if not
Built(before, after) == IF before = << >> /\ after # << >> THEN 1 ELSE 0

\* the call found the table it keeps between calls already built
Cached(before) == before # << >>

LookupIdle == /\ tbl = << >> /\ xq = 0 /\ looked = << >>
ThreadIdle ==
  /\ impl = "none" /\ pc = << >> /\ local = << >> /\ sFlip = << >> /\ seen = << >>

Init ==
  /\ input = Input_default
  /\ call = Call("none", 0)
  /\ outcome = NoOutcome
  /\ printed = << >>
  /\ cFlip = << >>
  /\ vFlip = << >>
  /\ builds = NoBuilds
  /\ LookupIdle
  /\ ThreadIdle

\* a process that died in an out-of-bounds read makes no further call
Running == outcome.kind # "crash"

\* a call starts from the values the caller has just set
Ready == Running /\ call.fn = "none"

\* the caller sets the values of the next call
SetInput ==
  /\ Running
  /\ \E in \in Inputs : input' = in
  /\ call' = Call("none", 0)
  /\ outcome' = NoOutcome
  /\ printed' = << >>
  /\ builds' = [builds EXCEPT !.cached = FALSE]
  /\ UNCHANGED << cFlip, vFlip, lookupVars, threadVars >>

SolveEvaporationLoss ==
  /\ Ready
  /\ builds.regular < MaxBuilds
  /\ \E r \in { solveEvaporationLoss(input) } :
       /\ call' = Call("solveEvaporationLoss", 0)
       /\ outcome' \in Outcomes(r.res)
       /\ printed' = IF outcome'.kind = "crash" THEN << >> ELSE r.out
       /\ builds' = [builds EXCEPT !.regular = @ + Built(<< >>, r.flip),
                              !.cached = Cached(<< >>)]
  /\ UNCHANGED << input, cFlip, vFlip, lookupVars, threadVars >>

CompactCalculate ==
  /\ Ready
  /\ \E r \in { EvapSolver_calculate(input, cFlip) } :
       /\ call' = Call("EvapSolver::Calculator::calculate", 0)
       /\ outcome' \in Outcomes(r.res)
       /\ cFlip' = r.flip
       /\ builds' = [builds EXCEPT !.compact = @ + Built(cFlip, r.flip),
                              !.cached = Cached(cFlip)]
       /\ printed' = << >>
  /\ UNCHANGED << input, vFlip, lookupVars, threadVars >>

CompactCalculateEvaporationLoss ==
  /\ Ready
  /\ \E r \in { EvapSolver_calculateEvaporationLoss(
                    input.vpd, input.nozzle, input.pressure, input.wind, cFlip) } :
       /\ call' = Call("EvapSolver::calculateEvaporationLoss", 0)
       /\ outcome' \in Outcomes(r.res)
       /\ cFlip' = r.flip
       /\ builds' = [builds EXCEPT !.compact = @ + Built(cFlip, r.flip),
                              !.cached = Cached(cFlip)]
       /\ printed' = << >>
  /\ UNCHANGED << input, vFlip, lookupVars, threadVars >>

\* "Input in(vpd, nozzle, pressure, wind);" alone
ValidatedInputCtor ==
  /\ Ready
  /\ LET c == Input(input.vpd, input.nozzle, input.pressure, input.wind)
     IN  outcome' = IF c.thrown THEN c.exc ELSE NoOutcome
  /\ call' = Call("EvapSolverValidated::Input::Input", 0)
  /\ printed' = << >>
  /\ UNCHANGED << input, cFlip, vFlip, builds, lookupVars, threadVars >>

\* Calculator::calculate on an Input object holding the values
ValidatedCalculate ==
  /\ Ready
  /\ \E r \in { EvapSolverValidated_calculate(input, vFlip) } :
       /\ call' = Call("EvapSolverValidated::Calculator::calculate", 0)
       /\ outcome' \in Outcomes(r.res)
       /\ vFlip' = r.flip
       /\ builds' = [builds EXCEPT !.validated = @ + Built(vFlip, r.flip),
                              !.cached = Cached(vFlip)]
       /\ printed' = << >>
  /\ UNCHANGED << input, cFlip, lookupVars, threadVars >>

ValidatedCalculateUnchecked ==
  /\ Ready
  /\ \E r \in { calculateUnchecked(input, vFlip) } :
       /\ call' = Call("EvapSolverValidated::Calculator::calculateUnchecked", 0)
       /\ outcome' \in Outcomes(r.res)
       /\ vFlip' = r.flip
       /\ builds' = [builds EXCEPT !.validated = @ + Built(vFlip, r.flip),
                              !.cached = Cached(vFlip)]
       /\ printed' = << >>
  /\ UNCHANGED << input, cFlip, lookupVars, threadVars >>

ValidatedCalculateWithValidation ==
  /\ Ready
  /\ \E r \in { calculateWithValidation(input, vFlip) } :
       /\ call' = Call("EvapSolverValidated::Calculator::calculateWithValidation", 0)
       /\ outcome' \in Outcomes(r.res)
       /\ vFlip' = r.flip
       /\ builds' = [builds EXCEPT !.validated = @ + Built(vFlip, r.flip),
                              !.cached = Cached(vFlip)]
       /\ printed' = << >>
  /\ UNCHANGED << input, cFlip, lookupVars, threadVars >>

ValidatedCalculateEvaporationLossWithValidation ==
  /\ Ready
  /\ \E r \in { calculateEvaporationLossWithValidation(
                    input.vpd, input.nozzle, input.pressure, input.wind, vFlip) } :
       /\ call' = Call("EvapSolverValidated::calculateEvaporationLossWithValidation", 0)
       /\ outcome' \in Outcomes(r.res)
       /\ vFlip' = r.flip
       /\ builds' = [builds EXCEPT !.validated = @ + Built(vFlip, r.flip),
                              !.cached = Cached(vFlip)]
       /\ printed' = << >>
  /\ UNCHANGED << input, cFlip, lookupVars, threadVars >>

ValidatedCalculateEvaporationLoss ==
  /\ Ready
  /\ \E r \in { EvapSolverValidated_calculateEvaporationLoss(
                    input.vpd, input.nozzle, input.pressure, input.wind, vFlip) } :
       /\ call' = Call("EvapSolverValidated::calculateEvaporationLoss", 0)
       /\ outcome' \in Outcomes(r.res)
       /\ vFlip' = r.flip
       /\ builds' = [builds EXCEPT !.validated = @ + Built(vFlip, r.flip),
                              !.cached = Cached(vFlip)]
       /\ printed' = << >>
  /\ UNCHANGED << input, cFlip, lookupVars, threadVars >>

ValidatedCalculateEvaporationLossSafe ==
  /\ Ready
  /\ \E d \in DefaultValues :
       \E r \in { calculateEvaporationLossSafe(
                    input.vpd, input.nozzle, input.pressure, input.wind, d, vFlip) } :
         /\ call' = Call("EvapSolverValidated::calculateEvaporationLossSafe", d)
         /\ outcome' \in Outcomes(r.res)
         /\ vFlip' = r.flip
         /\ builds' = [builds EXCEPT !.validated = @ + Built(vFlip, r.flip),
                              !.cached = Cached(vFlip)]
         /\ printed' = << >>
  /\ UNCHANGED << input, cFlip, lookupVars, threadVars >>

\* src/examples/evap_calculator.h: calculateEvaporationLoss(vpd, nozzle, pressure, wind)
ExampleCalculateEvaporationLoss ==
  /\ Ready
  /\ \E r \in { evap_calculator_calculateEvaporationLoss(
                    input.vpd, input.nozzle, input.pressure, input.wind) } :
       /\ call' = Call("evap_calculator.h calculateEvaporationLoss", 0)
       /\ outcome' \in Outcomes(r)
       /\ builds' = [builds EXCEPT !.cached = FALSE]
       /\ printed' = << >>
  /\ UNCHANGED << input, cFlip, vFlip, lookupVars, threadVars >>

\* src/examples/copy_paste_calculator.cpp: calculateEvaporationLoss(vpd, nozzle, pressure, wind)
CopyPasteCalculateEvaporationLoss ==
  /\ Ready
  /\ \E r \in { copy_paste_calculator_calculateEvaporationLoss(
                    input.vpd, input.nozzle, input.pressure, input.wind) } :
       /\ call' = Call("copy_paste_calculator.cpp calculateEvaporationLoss", 0)
       /\ outcome' \in Outcomes(r)
       /\ builds' = [builds EXCEPT !.cached = FALSE]
       /\ printed' = << >>
  /\ UNCHANGED << input, cFlip, vFlip, lookupVars, threadVars >>

Next ==
  \/ SetInput
  \/ SolveEvaporationLoss
  \/ CompactCalculate
  \/ CompactCalculateEvaporationLoss
  \/ ValidatedInputCtor
  \/ ValidatedCalculate
  \/ ValidatedCalculateUnchecked
  \/ ValidatedCalculateWithValidation
  \/ ValidatedCalculateEvaporationLossWithValidation
  \/ ValidatedCalculateEvaporationLoss
  \/ ValidatedCalculateEvaporationLossSafe
  \/ ExampleCalculateEvaporationLoss
  \/ CopyPasteCalculateEvaporationLoss

Spec == Init /\ [][Next]_vars


----------------------------------------------------------------------------
(* The lookup specification: each of the three lookup functions applied to *)
(* a table and a query drawn from bounded sets.  A table is empty or has   *)
(* strictly increasing positions, as every table of the code has.          *)

MaxLen == 3
MaxPos == 3

PosValues == { ToDouble(i) : i \in 0..MaxPos }
ValValues == { ToDouble(-1), ToDouble(0), ToDouble(2) }
Queries   == { Milli(500) * i : i \in -1..(2 * MaxPos + 1) } \cup { Milli(945) }

StrictlyIncreasing(t) == \A i \in 1..(Len(t) - 1) : t[i][1] < t[i + 1][1]

\* a table whose middle point the arithmetic of doubles does not give back:
\* (0.0001 - 0.0) * (0.945 - 0.0) / (0.945 - 0.0) is not 0.0001
RoundingTable ==
  << << 0, 0 >>, << Milli(945), Milli(1) \div 10 >>, << ToDouble(3), ToDouble(2) >> >>

Tables ==
  { t \in UNION { [1..n -> PosValues \X ValValues] : n \in 0..MaxLen } :
      StrictlyIncreasing(t) }
    \cup { RoundingTable }

SeqIdle ==
  /\ input = Input_default /\ call = Call("none", 0) /\ outcome = NoOutcome
  /\ printed = << >> /\ cFlip = << >> /\ vFlip = << >> /\ builds = NoBuilds

NotLooked == [fn |-> "none", res |-> NoOutcome]

LookupInit ==
  /\ tbl \in Tables
  /\ xq \in Queries
  /\ looked = NotLooked
  /\ SeqIdle
  /\ ThreadIdle

LookupInterpolate ==
  /\ looked' = [fn |-> "interpolate", res |-> interpolate(tbl, xq)]
  /\ UNCHANGED << tbl, xq, seqVars, threadVars >>

LookupCompactLerp ==
  /\ looked' = [fn |-> "EvapSolver::Calculator::lerp", res |-> EvapSolver_lerp(tbl, xq)]
  /\ UNCHANGED << tbl, xq, seqVars, threadVars >>

LookupValidatedLerp ==
  /\ looked' = [fn |-> "EvapSolverValidated::Calculator::lerp",
                res |-> EvapSolverValidated_lerp(tbl, xq)]
  /\ UNCHANGED << tbl, xq, seqVars, threadVars >>

LookupNext ==
  \/ LookupInterpolate
  \/ LookupCompactLerp
  \/ LookupValidatedLerp

LookupSpec == LookupInit /\ [][LookupNext]_vars


----------------------------------------------------------------------------
(* The thread specification: NumThreads threads make their first call of   *)
(* the same calculate function (EvapSolver::Calculator::calculate or       *)
(* EvapSolverValidated::Calculator::calculateUnchecked) at the same time.  *)
(* The function-local static S6_flip is shared; nothing guards             *)
(* "if (S6_flip.empty()) { fill; sort }", so the steps of the threads      *)
(* interleave; the fill loop is interleaved every FillStep emplace_back    *)
(* calls.  A lerp that runs while another thread is still writing the      *)
(* vector is a data race: it reads the vector as it stands, or the read    *)
(* goes wrong (the process dies).                                          *)

NumThreads == 2

\* the emplace_back calls a thread makes between two scheduling points
FillStep == 3

Threads == 1..NumThreads

Impls == { "EvapSolver", "EvapSolverValidated" }

impl_S6 == IF impl = "EvapSolver" THEN EvapSolver_S6 ELSE EvapSolverValidated_S6

impl_yL(in) ==
  IF impl = "EvapSolver" THEN EvapSolver_yL(in) ELSE EvapSolverValidated_yL(in)

impl_lerp(table, x) ==
  IF impl = "EvapSolver" THEN EvapSolver_lerp(table, x)
  ELSE EvapSolverValidated_lerp(table, x)

NoLocal == [yL |-> NoOutcome, i |-> 0]
NotSeen == [table |-> << >>, res |-> NoOutcome]

ThreadInit ==
  /\ impl \in Impls
  /\ pc = [t \in Threads |-> "begin"]
  /\ local = [t \in Threads |-> NoLocal]
  /\ sFlip = << >>
  /\ seen = [t \in Threads |-> NotSeen]
  /\ SeqIdle
  /\ LookupIdle

\* a process that died in a read runs no thread any further
T_Running == \A u \in Threads : seen[u].res.kind # "crash"

\* the forward lookups and the blends (thread-local)
T_Begin(t) ==
  /\ T_Running
  /\ pc[t] = "begin"
  /\ \E yL \in { impl_yL(RefInput) } :
         /\ local' = [local EXCEPT ![t].yL = yL]
         /\ pc' = [pc EXCEPT ![t] = IF yL.kind = "value" THEN "check" ELSE "done"]
         /\ seen' = IF yL.kind = "value" THEN seen
                    ELSE [seen EXCEPT ![t] = [table |-> << >>, res |-> yL]]
  /\ UNCHANGED << impl, sFlip, seqVars, lookupVars >>

\* if (S6_flip.empty())
T_Check(t) ==
  /\ T_Running
  /\ pc[t] = "check"
  /\ IF sFlip = << >>
       THEN /\ pc' = [pc EXCEPT ![t] = "fill"]
            /\ local' = [local EXCEPT ![t].i = 1]
       ELSE /\ pc' = [pc EXCEPT ![t] = "lerp"]
            /\ UNCHANGED local
  /\ UNCHANGED << impl, sFlip, seen, seqVars, lookupVars >>

\* the next passes of "for (const auto& [val, y] : S6) S6_flip.emplace_back(y, val)",
\* at most FillStep of them before another thread runs
T_Emplace(t) ==
  /\ T_Running
  /\ pc[t] = "fill"
  /\ LET i    == local[t].i
         last == IF i + FillStep - 1 < Len(impl_S6) THEN i + FillStep - 1 ELSE Len(impl_S6)
     IN  /\ sFlip' = sFlip \o FlipPairs(SubSeq(impl_S6, i, last))
         /\ local' = [local EXCEPT ![t].i = last + 1]
         /\ pc' = [pc EXCEPT ![t] = IF last = Len(impl_S6) THEN "sort" ELSE "fill"]
  /\ UNCHANGED << impl, seen, seqVars, lookupVars >>

\* std::sort(S6_flip.begin(), S6_flip.end())
T_Sort(t) ==
  /\ T_Running
  /\ pc[t] = "sort"
  /\ sFlip' = SortPairs(sFlip)
  /\ pc' = [pc EXCEPT ![t] = "lerp"]
  /\ UNCHANGED << impl, local, seen, seqVars, lookupVars >>

Writing(t) == pc[t] \in { "fill", "sort" }

\* return lerp(S6_flip, yL)
T_Lerp(t) ==
  /\ T_Running
  /\ pc[t] = "lerp"
  /\ \E r \in Outcomes(impl_lerp(sFlip, local[t].yL.val)) \cup
              (IF \E u \in Threads \ { t } : Writing(u) THEN { Crashed } ELSE { }) :
       seen' = [seen EXCEPT ![t] = [table |-> sFlip, res |-> r]]
  /\ pc' = [pc EXCEPT ![t] = "done"]
  /\ UNCHANGED << impl, local, sFlip, seqVars, lookupVars >>

ThreadNext ==
  \E t \in Threads :
    \/ T_Begin(t)
    \/ T_Check(t)
    \/ T_Emplace(t)
    \/ T_Sort(t)
    \/ T_Lerp(t)

ThreadSpec == ThreadInit /\ [][ThreadNext]_vars

\* the steps of one caller
ThreadStep(t) ==
  T_Begin(t) \/ T_Check(t) \/ T_Emplace(t) \/ T_Sort(t) \/ T_Lerp(t)

\* every thread that can take a step is scheduled again
FairThreadSpec ==
  ThreadSpec /\ \A t \in Threads : WF_vars(ThreadStep(t))

----------------------------------------------------------------------------
(* Claims.  The domains, the column positions and the tolerances below are *)
(* those of the specification, written independently of the code above.    *)

InRange(x, lo, hi) == ~IsNaN(x) /\ lo <= x /\ x <= hi

\* the three double fields are numbers
Numeric(in) == ~IsNaN(in.vpd) /\ ~IsNaN(in.pressure) /\ ~IsNaN(in.wind)

\* vpd in [0.0, 1.0], nozzle in [8, 64], pressure in [20, 80], wind in [0, 15]
InDomain(in) ==
  /\ InRange(in.vpd, Milli(0), Milli(1000))
  /\ InRange(in.nozzle, 8, 64)
  /\ InRange(in.pressure, Milli(20000), Milli(80000))
  /\ InRange(in.wind, Milli(0), Milli(15000))

Within(a, b, tol) == Abs(a - b) < tol

EvaluatorCalls ==
  { "solveEvaporationLoss",
    "EvapSolver::Calculator::calculate",
    "EvapSolver::calculateEvaporationLoss",
    "EvapSolverValidated::Calculator::calculateUnchecked" }

StrictCalls ==
  { "EvapSolverValidated::Calculator::calculate",
    "EvapSolverValidated::calculateEvaporationLoss" }

DiagnosticCalls ==
  { "EvapSolverValidated::Calculator::calculateWithValidation",
    "EvapSolverValidated::calculateEvaporationLossWithValidation" }

\* C1: for the reference input (0.6, 12, 40, 5), solveEvaporationLoss,
\* EvapSolver::Calculator::calculate and EvapSolverValidated::Calculator::calculate
\* each return a percentage within 0.01 of 8.314 and within 0.001 of 8.31433.
C1_ReferenceScenario ==
  (/\ input = RefInput
   /\ call.fn \in { "solveEvaporationLoss",
                    "EvapSolver::Calculator::calculate",
                    "EvapSolverValidated::Calculator::calculate" })
  => /\ outcome.kind = "value"
     /\ Within(outcome.val, Milli(8314), Milli(10))
     /\ Within(outcome.val, 8314330, Milli(1))

C1_Witness ==
  /\ input = RefInput
  /\ call.fn = "EvapSolverValidated::Calculator::calculate"
  /\ outcome.kind = "value"
  /\ cFlip # << >>

\* The reference pipeline of the specification.  A lookup is stated by its
\* cases, the bracketing pair being the one with x1 < x <= x2.
SpecLine(x, x1, y1, x2, y2) == y1 + DivFix(MulFix(y2 - y1, x - x1), x2 - x1)

\* the same line, evaluated slope first
SpecLineSlope(x, x1, y1, x2, y2) == y1 + MulFix(DivFix(y2 - y1, x2 - x1), x - x1)

SpecLookup(T, x) ==
  IF x <= T[1][1] THEN T[1][2]
  ELSE IF x >= T[Len(T)][1] THEN T[Len(T)][2]
  ELSE LET i == CHOOSE k \in 1..(Len(T) - 1) : T[k][1] < x /\ x <= T[k + 1][1]
       IN  SpecLine(x, T[i][1], T[i][2], T[i + 1][1], T[i + 1][2])

\* the result table with position and value swapped, sorted by the new position
SpecFlipped(S6) == SortPairs([i \in 1..Len(S6) |-> << S6[i][2], S6[i][1] >>])

SpecPipeline(in, S3, S5, S7, S9, S6, Line(_, _, _, _, _)) ==
  LET y_vpd      == SpecLookup(S3, in.vpd)
      y_nozzle   == SpecLookup(S5, in.nozzle * Scale)
      y_pressure == SpecLookup(S7, in.pressure)
      y_wind     == SpecLookup(S9, in.wind)
      pivotA     == Line(Milli(237), Milli(0), y_vpd, Milli(439), y_nozzle)
      pivotB     == Line(Milli(870), Milli(738), y_pressure, Milli(1000), y_wind)
      ordinate   == Line(Milli(490), Milli(237), pivotA, Milli(870), pivotB)
  IN  SpecLookup(SpecFlipped(S6), ordinate)

\* C2: for every input whose fields are numbers, in or out of domain, each
\* evaluator returns the result of the reference pipeline (which is defined on
\* numbers only: no pair of positions brackets a NaN): four forward lookups,
\* pivotA on the line through
\* (0.0, y_vpd) and (0.439, y_nozzle) at 0.237, pivotB on the line through
\* (0.738, y_pressure) and (1.000, y_wind) at 0.870, the ordinate on the line
\* through (0.237, pivotA) and (0.870, pivotB) at 0.490, and the lookup of the
\* ordinate on the flipped, re-sorted result table.  solveEvaporationLoss
\* evaluates each line slope first, the two Calculators as
\* y1 + (y2 - y1) * (x - x1) / (x2 - x1).
C2_ReferencePipeline ==
  Numeric(input) =>
  /\ call.fn = "solveEvaporationLoss"
       => outcome = Ret(SpecPipeline(input, solver_S3, solver_S5, solver_S7,
                                     solver_S9, solver_S6, SpecLineSlope))
  /\ call.fn \in { "EvapSolver::Calculator::calculate",
                   "EvapSolver::calculateEvaporationLoss" }
       => outcome = Ret(SpecPipeline(input, EvapSolver_S3, EvapSolver_S5, EvapSolver_S7,
                                     EvapSolver_S9, EvapSolver_S6, SpecLine))
  /\ (\/ call.fn = "EvapSolverValidated::Calculator::calculateUnchecked"
      \/ (call.fn \in StrictCalls /\ outcome.kind = "value"))
       => outcome = Ret(SpecPipeline(input, EvapSolverValidated_S3, EvapSolverValidated_S5,
                                     EvapSolverValidated_S7, EvapSolverValidated_S9,
                                     EvapSolverValidated_S6, SpecLine))

\* an off-grid input, so that every forward lookup interpolates
C2_Witness ==
  /\ call.fn = "EvapSolverValidated::Calculator::calculateUnchecked"
  /\ input = [vpd |-> Milli(250), nozzle |-> 13, pressure |-> Milli(42500),
              wind |-> ToDouble(14)]
  /\ outcome.kind = "value"
  /\ outcome.val > ToDouble(0)
  /\ outcome.val < ToDouble(40)

\* C3: the strict evaluate (EvapSolverValidated::calculateEvaporationLoss and
\* Calculator::calculate) throws if and only if at least one input is outside
\* its domain, the bounds being inclusive; every in-domain input, on a bound
\* or not, gets a result.
C3_StrictFailsIffOutOfDomain ==
  call.fn \in StrictCalls
    => /\ (outcome.kind = "throw") <=> ~InDomain(input)
       /\ (outcome.kind = "value") <=> InDomain(input)

\* a vpd that is a NaN is outside [0.0, 1.0] and is not rejected: the call
\* reads before the first element of S3 and returns a NaN
C3_NaNAccepted ==
  /\ call.fn = "EvapSolverValidated::calculateEvaporationLoss"
  /\ input = [vpd |-> NaN, nozzle |-> 12, pressure |-> ToDouble(40),
              wind |-> ToDouble(5)]
  /\ outcome = RetOob(NaN)

\* The message of a validation error, as the parts validate() concatenates:
\* the field it names, the range it gives and the value it shows.
MsgField(m) == m[1]
MsgRange(m) == << m[3], m[5] >>
MsgGot(m)   == m[7]

\* the number a rendered value reads as
ReadDouble(s) == (IF s[1] = "-" THEN -1 ELSE 1) * (s[2] * Scale + s[4])
ReadInt(s)    == (IF s[1] = "-" THEN -1 ELSE 1) * s[2]

\* the message names the field f, its range and the value v of the field
NamesVpd(m, in) ==
  /\ MsgField(m) = "Vapor-Pressure Deficit"
  /\ MsgRange(m) = << "0.0", "1.0" >>
  /\ ReadDouble(MsgGot(m)) = in.vpd
  /\ ~InRange(in.vpd, Milli(0), Milli(1000))

NamesNozzle(m, in) ==
  /\ MsgField(m) = "Nozzle diameter"
  /\ MsgRange(m) = << "8", "64" >>
  /\ ReadInt(MsgGot(m)) = in.nozzle
  /\ ~InRange(in.nozzle, 8, 64)

NamesPressure(m, in) ==
  /\ MsgField(m) = "Nozzle pressure"
  /\ MsgRange(m) = << "20", "80" >>
  /\ ReadDouble(MsgGot(m)) = in.pressure
  /\ ~InRange(in.pressure, Milli(20000), Milli(80000))

NamesWind(m, in) ==
  /\ MsgField(m) = "Wind velocity"
  /\ MsgRange(m) = << "0", "15" >>
  /\ ReadDouble(MsgGot(m)) = in.wind
  /\ ~InRange(in.wind, Milli(0), Milli(15000))

NamesOffendingField(m, in) ==
  NamesVpd(m, in) \/ NamesNozzle(m, in) \/ NamesPressure(m, in) \/ NamesWind(m, in)

\* the error message of the last call, if it failed validation
FailureMessage ==
  IF outcome.kind = "throw" THEN outcome.msg
  ELSE IF outcome.kind = "result" /\ ~outcome.isValid THEN outcome.errorMessage
  ELSE << >>

\* C4: every validation failure (an exception of the constructor or of a strict
\* call, or the errorMessage of a diagnostics result) names a field that is out
\* of its domain, the value of that field and the allowed range of that field;
\* a failure whose only out-of-domain field is f names f, so that vpd = -0.1
\* gets the vapor-pressure deficit with 0.0 to 1.0 and nozzle = 5 the nozzle
\* diameter with 8 to 64.
C4_FailureNamesFieldValueRange ==
  LET m == FailureMessage
  IN  (call.fn \in StrictCalls \cup DiagnosticCalls \cup
                   { "EvapSolverValidated::Input::Input" }
       /\ m # << >>)
        => /\ NamesOffendingField(m, input)
           /\ (input.vpd = Milli(-100) => NamesVpd(m, input))
           /\ (input.vpd = Milli(600) /\ input.nozzle = 5 => NamesNozzle(m, input))
           /\ (InRange(input.vpd, Milli(0), Milli(1000)) /\ InRange(input.nozzle, 8, 64)
               /\ ~InRange(input.pressure, Milli(20000), Milli(80000))
                 => NamesPressure(m, input))
           /\ (InRange(input.vpd, Milli(0), Milli(1000)) /\ InRange(input.nozzle, 8, 64)
               /\ InRange(input.pressure, Milli(20000), Milli(80000))
                 => NamesWind(m, input))

C4_Witness ==
  /\ call.fn = "EvapSolverValidated::calculateEvaporationLoss"
  /\ input = [vpd |-> Milli(600), nozzle |-> 5, pressure |-> ToDouble(40),
              wind |-> ToDouble(5)]
  /\ outcome.kind = "throw"
  /\ MsgField(outcome.msg) = "Nozzle diameter"
  /\ MsgGot(outcome.msg) = << "", 5 >>

\* what the strict calculateEvaporationLoss returns or throws for the input,
\* the static S6_flip being as a first call or as a later call finds it
StrictOutcomes(in) ==
  { EvapSolverValidated_calculateEvaporationLoss(
      in.vpd, in.nozzle, in.pressure, in.wind, flip).res :
      flip \in { << >>, vFlip } }

\* C5: calculateEvaporationLossSafe never fails; for an input with a field out
\* of its domain it returns exactly the default value the caller gave, and for
\* an in-domain input exactly the value the strict calculateEvaporationLoss
\* returns.
C5_SafeNeverFails ==
  call.fn = "EvapSolverValidated::calculateEvaporationLossSafe"
    => /\ outcome.kind = "value"
       /\ ~InDomain(input) => outcome.val = call.defaultValue
       /\ InDomain(input) => StrictOutcomes(input) = { outcome }

\* a pressure that is a NaN: the default -1.0 is not returned
C5_NaNNotDefault ==
  /\ call = Call("EvapSolverValidated::calculateEvaporationLossSafe", ToDouble(-1))
  /\ input = [vpd |-> Milli(600), nozzle |-> 12, pressure |-> NaN,
              wind |-> ToDouble(5)]
  /\ outcome = RetOob(NaN)

\* C6: the diagnostics variant (calculateEvaporationLossWithValidation and
\* Calculator::calculateWithValidation) never raises; isValid is true exactly
\* when all four inputs are in domain, and then calculatedValue is the strict
\* result and isOutOfRange is (calculatedValue < 0 or calculatedValue > 40).
C6_Diagnostics ==
  call.fn \in DiagnosticCalls
    => /\ outcome.kind = "result"
       /\ outcome.isValid <=> InDomain(input)
       /\ outcome.isValid
            => /\ StrictOutcomes(input) = { Ret(outcome.calculatedValue) }
               /\ outcome.isOutOfRange
                    <=> (\/ Lt(outcome.calculatedValue, Milli(0))
                         \/ Gt(outcome.calculatedValue, Milli(40000)))

\* a wind that is a NaN: the result is reported valid, its value a NaN
C6_NaNValid ==
  /\ call.fn = "EvapSolverValidated::calculateEvaporationLossWithValidation"
  /\ input = [vpd |-> Milli(600), nozzle |-> 12, pressure |-> ToDouble(40),
              wind |-> NaN]
  /\ outcome.kind = "result"
  /\ outcome.isValid
  /\ IsNaN(outcome.calculatedValue)
  /\ ~outcome.isOutOfRange
\* the three lookup functions
LookupCalls ==
  { "interpolate", "EvapSolver::Calculator::lerp",
    "EvapSolverValidated::Calculator::lerp" }

MinValue(T) == CHOOSE v \in { T[i][2] : i \in 1..Len(T) } :
                 \A j \in 1..Len(T) : v <= T[j][2]
MaxValue(T) == CHOOSE v \in { T[i][2] : i \in 1..Len(T) } :
                 \A j \in 1..Len(T) : v >= T[j][2]

\* C7: on a non-empty table with increasing positions each lookup function
\* returns the first value for every query at or below the first position and
\* the last value for every query at or above the last position; no result
\* lies beyond the values of the table.
C7_LookupClamps ==
  (looked.fn \in LookupCalls /\ tbl # << >>)
    => /\ looked.res.kind = "value"
       /\ ~looked.res.oob
       /\ xq <= tbl[1][1] => looked.res.val = tbl[1][2]
       /\ xq >= tbl[Len(tbl)][1] => looked.res.val = tbl[Len(tbl)][2]
       /\ MinValue(tbl) <= looked.res.val
       /\ looked.res.val <= MaxValue(tbl)

\* a query above the last position of a table whose last segment is not flat
C7_Witness ==
  /\ looked.fn = "interpolate"
  /\ Len(tbl) = MaxLen
  /\ xq > tbl[Len(tbl)][1]
  /\ tbl[Len(tbl)][2] # tbl[Len(tbl) - 1][2]
  /\ looked.res = Ret(tbl[Len(tbl)][2])

\* C8: on a table with strictly increasing positions, a query strictly between
\* two consecutive positions x1 < x < x2 gets y1 + (y2 - y1) * (x - x1) / (x2 - x1)
\* for that pair (x1, y1), (x2, y2), from each lookup function.
C8_PiecewiseLinear ==
  looked.fn \in LookupCalls
    => \A i \in 1..(Len(tbl) - 1) :
         (tbl[i][1] < xq /\ xq < tbl[i + 1][1])
           => looked.res = Ret(SpecLine(xq, tbl[i][1], tbl[i][2],
                                        tbl[i + 1][1], tbl[i + 1][2]))

\* a query inside the last segment of a table, which rises there
C8_Witness ==
  /\ looked.fn = "EvapSolverValidated::Calculator::lerp"
  /\ Len(tbl) = MaxLen
  /\ tbl[Len(tbl) - 1][1] < xq
  /\ xq < tbl[Len(tbl)][1]
  /\ looked.res.kind = "value"
  /\ tbl[Len(tbl) - 1][2] < looked.res.val
  /\ looked.res.val < tbl[Len(tbl)][2]

\* the three solvers
SolverCalls ==
  { "solveEvaporationLoss", "EvapSolver::calculateEvaporationLoss",
    "EvapSolverValidated::calculateEvaporationLoss" }

\* what each of the three solvers returns for the input, the static tables
\* being as the last calls left them
SolverResults(in) ==
  [regular   |-> solveEvaporationLoss(in).res,
   compact   |-> EvapSolver_calculateEvaporationLoss(
                   in.vpd, in.nozzle, in.pressure, in.wind, cFlip).res,
   validated |-> EvapSolverValidated_calculateEvaporationLoss(
                   in.vpd, in.nozzle, in.pressure, in.wind, vFlip).res]

\* C9 as stated: for every in-domain input the three solvers return the same
\* percentage.
C9_SamePercentage ==
  (call.fn \in SolverCalls /\ InDomain(input))
    => LET r == SolverResults(input)
       IN  /\ outcome \in { r.regular, r.compact, r.validated }
           /\ r.regular = r.compact
           /\ r.compact = r.validated

\* C9, amended: for every in-domain input the compact and the validated solver
\* return the identical percentage, and solveEvaporationLoss, which evaluates
\* its blends slope first, returns that percentage up to the rounding of the
\* arithmetic: the two differ by less than 0.001.
C9_SameUpToRounding ==
  (call.fn \in SolverCalls /\ InDomain(input))
    => LET r == SolverResults(input)
       IN  /\ outcome \in { r.regular, r.compact, r.validated }
           /\ r.regular.kind = "value"
           /\ r.compact = r.validated
           /\ Within(r.regular.val, r.compact.val, Milli(1))

\* the all-minimum input, where the slope-first blend rounds differently
C9_Witness ==
  /\ call.fn = "solveEvaporationLoss"
  /\ input = [vpd |-> Milli(0), nozzle |-> 8, pressure |-> ToDouble(20),
              wind |-> ToDouble(0)]
  /\ outcome.kind = "value"
  /\ outcome # SolverResults(input).compact
  /\ Within(outcome.val, SolverResults(input).compact.val, Milli(1))

\* the flipped result table, fully built: every point of S6, sorted by position
FullyBuilt == SortPairs(FlipPairs(impl_S6))

\* C10: when the threads make their first call at the same time, the reverse
\* lookup of every caller reads the fully built flipped result table and
\* returns its value; none reads an empty, partly filled or unsorted S6_flip.
C10_ReadsFullyBuilt ==
  \A t \in Threads :
    pc[t] = "done"
      => /\ seen[t].table = FullyBuilt
         /\ seen[t].res.kind = "value"

\* a caller whose lookup read S6_flip while another thread had filled a part
\* of it
C10_PartialRead ==
  \E t \in Threads :
    /\ pc[t] = "done"
    /\ seen[t].res.kind = "value"
    /\ Len(seen[t].table) > 0
    /\ Len(seen[t].table) < Len(impl_S6)

\* C11: in every solver variant the flipped result table is built once and
\* kept: over any sequence of evaluations the swap-and-sort build of S6_flip
\* runs at most once per variant, later evaluations reuse the table.
C11_BuiltAtMostOnce ==
  /\ builds.regular <= 1
  /\ builds.compact <= 1
  /\ builds.validated <= 1

\* a second call of solveEvaporationLoss that has built its S6_flip again
C11_RebuiltPerCall ==
  /\ call.fn = "solveEvaporationLoss"
  /\ outcome.kind = "value"
  /\ builds.regular = 2

\* the entry points that evaluate
EvaluationCalls == EvaluatorCalls \cup StrictCalls \cup DiagnosticCalls
                     \cup { "EvapSolverValidated::calculateEvaporationLossSafe" }

\* what the entry point c.fn returns for the input when it is the first call
\* of the process: the tables kept between calls are still empty
FirstCall(c, in) ==
  CASE c.fn = "solveEvaporationLoss" -> solveEvaporationLoss(in).res
    [] c.fn = "EvapSolver::Calculator::calculate" ->
         EvapSolver_calculate(in, << >>).res
    [] c.fn = "EvapSolver::calculateEvaporationLoss" ->
         EvapSolver_calculateEvaporationLoss(
           in.vpd, in.nozzle, in.pressure, in.wind, << >>).res
    [] c.fn = "EvapSolverValidated::Calculator::calculateUnchecked" ->
         calculateUnchecked(in, << >>).res
    [] c.fn = "EvapSolverValidated::Calculator::calculate" ->
         EvapSolverValidated_calculate(in, << >>).res
    [] c.fn = "EvapSolverValidated::Calculator::calculateWithValidation" ->
         calculateWithValidation(in, << >>).res
    [] c.fn = "EvapSolverValidated::calculateEvaporationLossWithValidation" ->
         calculateEvaporationLossWithValidation(
           in.vpd, in.nozzle, in.pressure, in.wind, << >>).res
    [] c.fn = "EvapSolverValidated::calculateEvaporationLoss" ->
         EvapSolverValidated_calculateEvaporationLoss(
           in.vpd, in.nozzle, in.pressure, in.wind, << >>).res
    [] c.fn = "EvapSolverValidated::calculateEvaporationLossSafe" ->
         calculateEvaporationLossSafe(
           in.vpd, in.nozzle, in.pressure, in.wind, c.defaultValue, << >>).res

\* C12: evaluation is deterministic and independent of the calls made before:
\* whatever the history, a call returns what a first call of the same entry
\* point with the same input returns; a call that reuses the S6_flip an earlier
\* call built returns the value of the call that builds it.
C12_HistoryIndependent ==
  call.fn \in EvaluationCalls
    => outcome \in Outcomes(FirstCall(call, input))

\* a later call of the compact solver, which found S6_flip built, has returned
\* the value of a first call
C12_Witness ==
  /\ call.fn = "EvapSolver::Calculator::calculate"
  /\ input = RefInput
  /\ builds.cached
  /\ builds.compact = 1
  /\ outcome.kind = "value"
  /\ outcome = EvapSolver_calculate(input, << >>).res

\* the entry points that return the evaluator's percentage as a number
PercentageCalls == EvaluatorCalls \cup StrictCalls

\* the test of calculateWithValidation: result < 0.0 || result > 40.0
OutOfRange(result) == Lt(result, ToDouble(0)) \/ Gt(result, ToDouble(40))

\* C13 as stated: the percentage is not clamped to 0-40: there is an input for
\* which the evaluator returns a value below 0 or above 40, which the
\* diagnostics variant reports with isOutOfRange = true.
C13_SomeInputOutOfRange ==
  \E in \in Inputs :
    LET value == calculateUnchecked(in, vFlip).res
        diag  == calculateWithValidation(in, vFlip).res
    IN  /\ value.kind = "value"
        /\ OutOfRange(value.val)
        /\ diag.isOutOfRange

\* C13: no evaluator returns a value below 0 or above 40, whatever the input,
\* and every result of the diagnostics variant has isOutOfRange false; when
\* the fields of the input are numbers the percentage lies in [0, 40], the
\* reverse lookup clamping at the two ends of the result scale.
C13_NeverOutOfRange ==
  /\ (call.fn \in PercentageCalls /\ outcome.kind = "value")
       => /\ ~OutOfRange(outcome.val)
          /\ Numeric(input)
               => InRange(outcome.val, ToDouble(0), ToDouble(40))
  /\ (call.fn \in DiagnosticCalls /\ outcome.kind = "result")
       => /\ ~outcome.isOutOfRange
          /\ ~OutOfRange(outcome.calculatedValue)

\* the largest vpd and wind with the smallest nozzle and the largest pressure:
\* the diagnostics variant returns exactly 40, the last value of the result
\* scale, and does not flag it
C13_Witness ==
  /\ call.fn \in DiagnosticCalls
  /\ input = [vpd |-> Milli(1000), nozzle |-> 8, pressure |-> ToDouble(80),
              wind |-> ToDouble(15)]
  /\ outcome.kind = "result"
  /\ outcome.isValid
  /\ outcome.calculatedValue = ToDouble(40)
  /\ ~outcome.isOutOfRange

\* C14: solveEvaporationLoss raises an error instead of returning a result
\* when an input is outside its documented range (vpd -0.1, nozzle 5).
C14_OriginalRejectsOutOfRange ==
  (call.fn = "solveEvaporationLoss" /\ ~InDomain(input))
    => outcome.kind = "throw"

\* solveEvaporationLoss called with vpd = -0.1 has returned a percentage
C14_ResultForInvalidVpd ==
  /\ call.fn = "solveEvaporationLoss"
  /\ input = [vpd |-> Milli(-100), nozzle |-> 12, pressure |-> ToDouble(40),
              wind |-> ToDouble(5)]
  /\ outcome.kind = "value"
  /\ ~IsNaN(outcome.val)

\* C15: no evaluation performs I/O: a call of any solver entry point writes
\* nothing to standard output.
C15_NoOutput ==
  call.fn \in EvaluationCalls => printed = << >>

\* solveEvaporationLoss has returned and written its line to std::cout
C15_PrintsResult ==
  /\ call.fn = "solveEvaporationLoss"
  /\ input = RefInput
  /\ outcome.kind = "value"
  /\ printed = << "Evaporation Loss: ", outcome.val, "%" >>

\* the three lookup functions applied to the empty table
EmptyLookups(x) ==
  { interpolate(<< >>, x), EvapSolver_lerp(<< >>, x),
    EvapSolverValidated_lerp(<< >>, x) }

\* C16: a lookup on an empty table fails with an error, for every query x and
\* in each of the three lookup functions: it returns no value and reads no
\* element of the table.
C16_EmptyTableFails ==
  /\ (looked.fn \in LookupCalls /\ tbl = << >>)
       => /\ looked.res.kind = "throw"
          /\ ~looked.res.oob
  /\ \A x \in Queries \cup { NaN } :
       \A r \in EmptyLookups(x) : r.kind = "throw" /\ ~r.oob

\* interpolate has been called on the empty table and has thrown
C16_Witness ==
  /\ looked.fn = "interpolate"
  /\ tbl = << >>
  /\ looked.res = Throw(<< "Interpolation table is empty." >>)

\* C17: a malformed table, empty or with fewer than two points, is rejected
\* with a configuration error when it is constructed, before any evaluation:
\* no lookup is ever made on such a table, none handles it per call or
\* accepts it.
C17_MalformedRejectedAtStartup ==
  looked.fn \in LookupCalls => Len(tbl) >= 2

\* a lookup on a table of one point has returned that point's value
C17_OnePointAccepted ==
  /\ looked.fn = "interpolate"
  /\ Len(tbl) = 1
  /\ looked.res = Ret(tbl[1][2])

\* the calls that validate their input
ValidatingCalls ==
  StrictCalls \cup DiagnosticCalls \cup { "EvapSolverValidated::Input::Input" }

\* C18: validation fails fast in the order vpd, nozzle, pressure, wind: when
\* several fields are out of domain at once, the error reported is the one of
\* the first field out of its domain in that order, and of no later field.
C18_FirstViolatedFieldReported ==
  LET m == FailureMessage
      vpdOk      == InRange(input.vpd, Milli(0), Milli(1000))
      nozzleOk   == InRange(input.nozzle, 8, 64)
      pressureOk == InRange(input.pressure, Milli(20000), Milli(80000))
      windOk     == InRange(input.wind, Milli(0), Milli(15000))
  IN  (call.fn \in ValidatingCalls /\ m # << >>)
        => /\ ~vpdOk => NamesVpd(m, input)
           /\ (vpdOk /\ ~nozzleOk) => NamesNozzle(m, input)
           /\ (vpdOk /\ nozzleOk /\ ~pressureOk) => NamesPressure(m, input)
           /\ (vpdOk /\ nozzleOk /\ pressureOk /\ ~windOk) => NamesWind(m, input)

\* a vpd that is a NaN and a nozzle of 5: the error reported is the nozzle's
C18_LaterFieldReported ==
  /\ call.fn = "EvapSolverValidated::calculateEvaporationLoss"
  /\ input = [vpd |-> NaN, nozzle |-> 5, pressure |-> ToDouble(40),
              wind |-> ToDouble(5)]
  /\ outcome.kind = "throw"
  /\ MsgField(outcome.msg) = "Nozzle diameter"

\* x brought into [lo, hi]; a NaN, which compares with nothing, stays a NaN
Clamp(x, lo, hi) == IF Lt(x, lo) THEN lo ELSE IF Gt(x, hi) THEN hi ELSE x

\* the input with each field clamped to its domain
Clamped(in) ==
  [vpd      |-> Clamp(in.vpd, ToDouble(0), ToDouble(1)),
   nozzle   |-> Clamp(in.nozzle, 8, 64),
   pressure |-> Clamp(in.pressure, ToDouble(20), ToDouble(80)),
   wind     |-> Clamp(in.wind, ToDouble(0), ToDouble(15))]

\* C19: the unvalidated evaluators never extrapolate: for every input, in or
\* out of domain, solveEvaporationLoss, EvapSolver::Calculator::calculate (and
\* the convenience function on it) and Calculator::calculateUnchecked return
\* what they return for the same input with each field clamped to its domain.
C19_EqualsResultOnClampedInput ==
  call.fn \in EvaluatorCalls
    => outcome \in Outcomes(FirstCall(call, Clamped(input)))

\* an input with every field above its domain: the compact evaluator has
\* returned the value of the clamped input (1, 64, 80, 15)
C19_Witness ==
  /\ call.fn = "EvapSolver::Calculator::calculate"
  /\ input = [vpd |-> Milli(1500), nozzle |-> 100, pressure |-> ToDouble(100),
              wind |-> ToDouble(20)]
  /\ Clamped(input) = [vpd |-> ToDouble(1), nozzle |-> 64,
                       pressure |-> ToDouble(80), wind |-> ToDouble(15)]
  /\ Clamped(input) # input
  /\ outcome.kind = "value"
  /\ outcome = EvapSolver_calculate(Clamped(input), << >>).res

\* at least two points, positions strictly increasing
WellFormed(t) == Len(t) >= 2 /\ StrictlyIncreasing(t)

\* the five digitized tables of each solver variant
ScaleTables ==
  { solver_S3, solver_S5, solver_S7, solver_S9, solver_S6,
    EvapSolver_S3, EvapSolver_S5, EvapSolver_S7, EvapSolver_S9, EvapSolver_S6,
    EvapSolverValidated_S3, EvapSolverValidated_S5, EvapSolverValidated_S7,
    EvapSolverValidated_S9, EvapSolverValidated_S6 }

\* C20: each of the five digitized tables S3, S5, S7, S9, S6 of every solver
\* variant has at least two points and strictly increasing positions with no
\* duplicate, and so has the flipped result table of every variant at every
\* point after it is built: the S6_flip each call of solveEvaporationLoss
\* builds, and the static S6_flip of the two Calculators whenever it is not
\* empty and no caller is filling or sorting it.
C20_TablesWellFormed ==
  /\ \A t \in ScaleTables : WellFormed(t)
  /\ WellFormed(solver_S6_flip)
  /\ cFlip # << >> => WellFormed(cFlip)
  /\ vFlip # << >> => WellFormed(vFlip)
  /\ (sFlip # << >> /\ \A t \in Threads : ~Writing(t)) => WellFormed(sFlip)

\* both callers of a first call made at the same time have filled the static
\* S6_flip: it is left with every position twice
C20_DuplicatePositions ==
  /\ \A t \in Threads : pc[t] = "done" /\ seen[t].res.kind = "value"
  /\ Len(sFlip) = 2 * Len(impl_S6)
  /\ sFlip[1][1] = sFlip[2][1]
  /\ ~StrictlyIncreasing(sFlip)

\* x is strictly inside the positions of the table
StrictlyInside(t, x) == t # << >> /\ t[1][1] < x /\ x < t[Len(t)][1]

\* the lookups of the solvers' own tables at their interior positions give
\* the value of the point
OwnTablesExact ==
  \A t \in ScaleTables \cup { solver_S6_flip } :
    \A i \in 2..(Len(t) - 1) :
      /\ interpolate(t, t[i][1]) = Ret(t[i][2])
      /\ EvapSolver_lerp(t, t[i][1]) = Ret(t[i][2])
      /\ EvapSolverValidated_lerp(t, t[i][1]) = Ret(t[i][2])

\* the found element it brackets x with its predecessor, and no other pair does
Brackets(t, x, it) ==
  /\ it >= 2
  /\ it <= Len(t)
  /\ t[it - 1][1] < x
  /\ x <= t[it][1]
  /\ t[it][1] - t[it - 1][1] # 0
  /\ \A j \in 2..Len(t) : (t[j - 1][1] < x /\ x <= t[j][1]) => j = it

\* C21 as stated: for a table with strictly increasing positions and x
\* strictly inside it, the search selects the unique consecutive pair with
\* x1 < x <= x2, the found element never the first and never past the end, so
\* the predecessor is inside the table and x2 - x1 is not zero; when x equals
\* an interior position the lookup returns exactly that point's value.
C21_BracketAndExactAtPoint ==
  (looked.fn \in LookupCalls /\ StrictlyInside(tbl, xq))
    => /\ Brackets(tbl, xq, lower_bound(tbl, xq))
       /\ looked.res.kind = "value"
       /\ ~looked.res.oob
       /\ \A i \in 2..(Len(tbl) - 1) :
            xq = tbl[i][1] => looked.res.val = tbl[i][2]

\* C21: for a table with strictly increasing positions and x strictly inside
\* it, the search selects the unique consecutive pair with x1 < x <= x2, the
\* found element never the first and never past the end, the predecessor
\* inside the table and x2 - x1 not zero; when x equals an interior position
\* the lookup returns that point's value up to the rounding of the arithmetic
\* (within 0.001), and exactly that value on the tables of the solvers.
C21_BracketAndCloseAtPoint ==
  /\ (looked.fn \in LookupCalls /\ StrictlyInside(tbl, xq))
       => /\ Brackets(tbl, xq, lower_bound(tbl, xq))
          /\ looked.res.kind = "value"
          /\ ~looked.res.oob
          /\ \A i \in 2..(Len(tbl) - 1) :
               xq = tbl[i][1] => Within(looked.res.val, tbl[i][2], Milli(1))
  /\ OwnTablesExact

\* the lookup at the middle position 0.945 of the table (0, 0), (0.945, 0.0001),
\* (3, 2) has returned a value that is close to 0.0001 and is not 0.0001
C21_Witness ==
  /\ looked.fn = "interpolate"
  /\ tbl = RoundingTable
  /\ xq = tbl[2][1]
  /\ lower_bound(tbl, xq) = 2
  /\ looked.res.kind = "value"
  /\ looked.res.val # tbl[2][2]
  /\ Within(looked.res.val, tbl[2][2], Milli(1))

\* C22: when validation fails, the diagnostics result has isValid = false, a
\* non-empty errorMessage, calculatedValue = 0.0 and isOutOfRange = false;
\* when validation succeeds, isValid is true and errorMessage is empty.
C22_FailureResultFields ==
  (call.fn \in DiagnosticCalls /\ outcome.kind = "result")
    => /\ validate(input).kind = "throw"
            => /\ ~outcome.isValid
               /\ outcome.errorMessage # << >>
               /\ outcome.errorMessage = validate(input).msg
               /\ outcome.calculatedValue = ToDouble(0)
               /\ ~outcome.isOutOfRange
       /\ validate(input).kind # "throw"
            => /\ outcome.isValid
               /\ outcome.errorMessage = << >>

\* Calculator::calculateWithValidation on an Input whose pressure is 100: the
\* result is invalid, has a message, the value 0.0 and no out-of-range flag
C22_Witness ==
  /\ call.fn = "EvapSolverValidated::Calculator::calculateWithValidation"
  /\ input = [vpd |-> Milli(600), nozzle |-> 12, pressure |-> ToDouble(100),
              wind |-> ToDouble(5)]
  /\ outcome.kind = "result"
  /\ ~outcome.isValid
  /\ MsgField(outcome.errorMessage) = "Nozzle pressure"
  /\ outcome.calculatedValue = ToDouble(0)
  /\ ~outcome.isOutOfRange

\* the entry points of the validated API that validate before they evaluate
GuardedCalls ==
  StrictCalls \cup DiagnosticCalls
    \cup { "EvapSolverValidated::calculateEvaporationLossSafe" }

\* the call ended in a rejection: an exception, an invalid diagnostics result,
\* or the caller's default value
Rejected ==
  \/ outcome.kind = "throw"
  \/ outcome.kind = "result" /\ ~outcome.isValid
  \/ /\ call.fn = "EvapSolverValidated::calculateEvaporationLossSafe"
     /\ outcome = Ret(call.defaultValue)

\* C23: the evaluator is invoked only after validation succeeds: every call
\* of Calculator::calculate, Calculator::calculateWithValidation,
\* calculateEvaporationLoss, calculateEvaporationLossSafe and
\* calculateEvaporationLossWithValidation validates the current field values
\* first, so an Input whose fields hold out-of-domain values is rejected and
\* never evaluated: no value is computed for it and the call does not get as
\* far as building S6_flip.
C23_OutOfDomainNeverEvaluated ==
  (call.fn \in GuardedCalls /\ ~InDomain(input))
    => /\ Rejected
       /\ vFlip = << >> \/ builds.cached

\* Calculator::calculate on an Input whose wind was set to a NaN: the first
\* call of the process has evaluated it and built S6_flip on the way
C23_NaNEvaluated ==
  /\ call.fn = "EvapSolverValidated::Calculator::calculate"
  /\ input = [vpd |-> Milli(600), nozzle |-> 12, pressure |-> ToDouble(40),
              wind |-> NaN]
  /\ outcome.kind = "value"
  /\ ~builds.cached
  /\ builds.validated = 1
  /\ vFlip # << >>

\* a step in which an entry point of a solver is called and returns
CallStep == call.fn = "none" /\ call'.fn # "none"

\* C24: no solver call modifies the caller's input fields, and once the
\* flipped result table of a Calculator has been built by the first call,
\* every later call, whether it succeeds or fails validation, leaves it as it
\* is.  (The five base tables are constants of each function.)
C24_CallsLeaveDataUnchanged ==
  [][CallStep
       => /\ input' = input
          /\ cFlip # << >> => cFlip' = cFlip
          /\ vFlip # << >> => vFlip' = vFlip]_vars

\* a later call of Calculator::calculate that failed validation: the input is
\* what the caller set, and the table an earlier call built is still there
C24_Witness ==
  /\ call.fn = "EvapSolverValidated::Calculator::calculate"
  /\ input = [vpd |-> Milli(-100), nozzle |-> 12, pressure |-> ToDouble(40),
              wind |-> ToDouble(5)]
  /\ outcome.kind = "throw"
  /\ builds.cached
  /\ builds.validated = 1
  /\ vFlip = SortPairs(FlipPairs(EvapSolverValidated_S6))

\* the call of thread t has come back with a percentage or an error
Returned(t) == pc[t] = "done" /\ seen[t].res.kind \in { "value", "throw" }

C25_EndsUnlessProcessDies ==
  \A t \in Threads : <>(Returned(t) \/ ~T_Running)

\* C26: the lazy build of the flipped result table is idempotent under
\* concurrent first use: however the first calls of the threads interleave,
\* the points are appended by at most one builder, so S6_flip never holds more
\* points than S6 has (14) and never two points with the same position.
C26_SingleBuilder ==
  /\ Cardinality({ t \in Threads : local[t].i > 0 }) <= 1
  /\ Len(sFlip) <= Len(impl_S6)
  /\ \A i, j \in 1..Len(sFlip) : i # j => sFlip[i][1] # sFlip[j][1]

\* two callers have found S6_flip empty and both are appending: the table
\* holds more than 14 points
C26_TwoBuilders ==
  /\ Cardinality({ t \in Threads : local[t].i > 0 }) = 2
  /\ Len(sFlip) > Len(impl_S6)
  /\ \E i, j \in 1..Len(sFlip) : i # j /\ sFlip[i][1] = sFlip[j][1]

\* flip is the table s with the position and the value of each point
\* swapped, the points in the order of s
SwappedInOrder(s, flip) ==
  /\ Len(flip) = Len(s)
  /\ \A i \in 1..Len(s) : flip[i][1] = s[i][2] /\ flip[i][2] = s[i][1]

ValuesIncreasing(s) == \A i \in 1..(Len(s) - 1) : s[i][2] < s[i + 1][2]

\* the table is, point for point, the literal table of each example calculator
EqualsLiterals(flip) ==
  /\ flip = evap_calculator_S6_flip
  /\ flip = copy_paste_calculator_S6

\* C27: the flipped table a solver derives is exactly its S6 with the position
\* and the value of each point swapped, in the order of S6 (the values of S6
\* increase strictly, so the sort moves no point), and it equals point for
\* point the literal tables of the example calculators: S6_flip of
\* evap_calculator.h and S6 of copy_paste_calculator.cpp.
C27_FlippedEqualsLiterals ==
  /\ cFlip # << >> =>
       /\ ValuesIncreasing(EvapSolver_S6)
       /\ SwappedInOrder(EvapSolver_S6, cFlip)
       /\ EqualsLiterals(cFlip)
  /\ vFlip # << >> =>
       /\ ValuesIncreasing(EvapSolverValidated_S6)
       /\ SwappedInOrder(EvapSolverValidated_S6, vFlip)
       /\ EqualsLiterals(vFlip)
  /\ call.fn = "solveEvaporationLoss" =>
       /\ ValuesIncreasing(solver_S6)
       /\ SwappedInOrder(solver_S6, solver_S6_flip)
       /\ EqualsLiterals(solver_S6_flip)

\* all three solvers have derived their flipped table
C27_Witness ==
  /\ Len(cFlip) = 14
  /\ Len(vFlip) = 14
  /\ call.fn = "solveEvaporationLoss"
  /\ builds.regular > 0

ExampleCalls ==
  { "evap_calculator.h calculateEvaporationLoss",
    "copy_paste_calculator.cpp calculateEvaporationLoss" }

\* C28: for every input the two example calculators return the percentage
\* EvapSolver::Calculator::calculate returns: a call of either example has
\* the result of the solver on the same input, and a call of the solver has
\* the result of both examples.
C28_ExamplesAgreeWithSolver ==
  /\ call.fn \in ExampleCalls =>
       outcome \in Outcomes(EvapSolver_calculate(input, << >>).res)
  /\ call.fn = "EvapSolver::Calculator::calculate" =>
       /\ outcome \in Outcomes(evap_calculator_calculateEvaporationLoss(
                                 input.vpd, input.nozzle, input.pressure, input.wind))
       /\ outcome \in Outcomes(copy_paste_calculator_calculateEvaporationLoss(
                                 input.vpd, input.nozzle, input.pressure, input.wind))

\* the copy-paste calculator has returned a percentage for an input between
\* the table points, where all three blends and all five lookups interpolate
C28_Witness ==
  /\ call.fn = "copy_paste_calculator.cpp calculateEvaporationLoss"
  /\ input = [vpd |-> Milli(250), nozzle |-> 13, pressure |-> Milli(42500),
              wind |-> ToDouble(14)]
  /\ outcome.kind = "value"
  /\ outcome.val > ToDouble(8) /\ outcome.val < ToDouble(9)

\* b is a with one field increased and the other three the same
VpdStep(a, b) ==
  /\ Lt(a.vpd, b.vpd)
  /\ a.nozzle = b.nozzle /\ a.pressure = b.pressure /\ a.wind = b.wind
PressureStep(a, b) ==
  /\ Lt(a.pressure, b.pressure)
  /\ a.vpd = b.vpd /\ a.nozzle = b.nozzle /\ a.wind = b.wind
WindStep(a, b) ==
  /\ Lt(a.wind, b.wind)
  /\ a.vpd = b.vpd /\ a.nozzle = b.nozzle /\ a.pressure = b.pressure
NozzleStep(a, b) ==
  /\ a.nozzle < b.nozzle
  /\ a.vpd = b.vpd /\ a.pressure = b.pressure /\ a.wind = b.wind

OneStep(a, b) ==
  VpdStep(a, b) \/ PressureStep(a, b) \/ WindStep(a, b) \/ NozzleStep(a, b)

\* the inputs one step above the input, each with the percentage the
\* evaluator returns for it
StepsAbove(in) ==
  { [in |-> b, res |-> EvapSolver_calculate(b, << >>).res] :
      b \in { i \in Inputs : OneStep(in, i) } }

InTable(t, x) == InRange(x, t[1][1], t[Len(t)][1])

\* x lies strictly outside the positions of the table t
StrictlyOutside(t, x) == Lt(x, t[1][1]) \/ Gt(x, t[Len(t)][1])

\* each field of the input lies within the positions of its scale table
WithinTables(in) ==
  /\ InTable(EvapSolverValidated_S3, in.vpd)
  /\ InTable(EvapSolverValidated_S5, ToDouble(in.nozzle))
  /\ InTable(EvapSolverValidated_S7, in.pressure)
  /\ InTable(EvapSolverValidated_S9, in.wind)

SomeFieldStrictlyOutside(in) ==
  \/ StrictlyOutside(EvapSolverValidated_S3, in.vpd)
  \/ StrictlyOutside(EvapSolverValidated_S5, ToDouble(in.nozzle))
  \/ StrictlyOutside(EvapSolverValidated_S7, in.pressure)
  \/ StrictlyOutside(EvapSolverValidated_S9, in.wind)

\* C30: the validation domain of each input equals the position range of its
\* scale table exactly (S3 0 to 1.0, S5 8 to 64, S7 20 to 80, S9 0 to 15): an
\* input passes validation exactly if each field lies within the positions of
\* its table, so no forward lookup of a validated input receives a value
\* strictly outside its table, and every input that fails validation has a
\* field strictly outside its table.
C30_DomainEqualsTableRange ==
  /\ EvapSolverValidated_S3[1][1] = Milli(0)
  /\ EvapSolverValidated_S3[Len(EvapSolverValidated_S3)][1] = Milli(1000)
  /\ EvapSolverValidated_S5[1][1] = ToDouble(8)
  /\ EvapSolverValidated_S5[Len(EvapSolverValidated_S5)][1] = ToDouble(64)
  /\ EvapSolverValidated_S7[1][1] = ToDouble(20)
  /\ EvapSolverValidated_S7[Len(EvapSolverValidated_S7)][1] = ToDouble(80)
  /\ EvapSolverValidated_S9[1][1] = ToDouble(0)
  /\ EvapSolverValidated_S9[Len(EvapSolverValidated_S9)][1] = ToDouble(15)
  /\ call.fn \in ValidatingCalls =>
       /\ (FailureMessage = << >>) <=> WithinTables(input)
       /\ FailureMessage = << >> => ~SomeFieldStrictlyOutside(input)
       /\ FailureMessage # << >> => SomeFieldStrictlyOutside(input)

\* the constructor has accepted a pressure that is not a number: it is not
\* within the positions of S7 (and not strictly outside them either)
C30_AcceptedOutsideTable ==
  /\ call.fn = "EvapSolverValidated::Input::Input"
  /\ outcome = NoOutcome
  /\ IsNaN(input.pressure)
  /\ ~InTable(EvapSolverValidated_S7, input.pressure)
  /\ ~IsNaN(input.vpd) /\ ~IsNaN(input.wind)

====
